---- MODULE Spec2Model ----
(***************************************************************************)
(* Student portal front end: the course-selection workflow (the routed     *)
(* CourseSelectionPage built on react-query, and the Redux-based            *)
(* CourseSelection component) and the fallback chains of studentCourseApi. *)
(***************************************************************************)
EXTENDS Integers, Sequences, FiniteSets, TLC

(***************************************************************************)
(* Bounds of the model.                                                    *)
(***************************************************************************)
\* Selections the server accepts in one run (further creations are refused).
MaxCreates == 1
\* Bounds of the utilities: candidates of a probe, the longest duration a
\* probe measures, the years a run spans.
MaxUrls == 3
MaxDuration == 2
MaxSpan == 6

(***************************************************************************)
(* Values.  Ids are positive; Empty is null (the page) and '' (Redux).     *)
(***************************************************************************)
Empty == 0
Range(s) == {s[i] : i \in DOMAIN s}
Filter_KeepsNone(s, id) == <<>>
RECURSIVE Filter(_, _)
\* Array.prototype.filter keeping the entries whose id differs from id.
Filter(s, id) ==
  IF s = <<>> THEN <<>>
  ELSE IF Head(s) = id THEN Filter(Tail(s), id)
       ELSE <<Head(s)>> \o Filter(Tail(s), id)

\* The selections a returning student already holds on the server, and the
\* ids a selection can have: those the server gives to new selections and
\* those of the selections held before.
PriorSelections == <<MaxCreates + 1, MaxCreates + 2>>
SelectionIds == 1..(MaxCreates + 2)

\* The server of record: the course catalogue, the teachers of each course,
\* the slots of each (course, teacher) pair, and the unfiltered slot list of
\* the generic endpoint /api/slot/.
ServerCourses == <<1, 2>>
CourseIds == Range(ServerCourses)
TeacherIds == {1, 2}
SlotKeys == CourseIds \X TeacherIds
TeachersOf(c) == <<c>>
SlotsOf(c, t) == <<c>>
AllSlots == <<1, 2>>

VARIABLES
  mounted,           \* which component is on screen: "page" or "redux"
  selectedCourse, selectedTeacher, selectedSlot,   \* useState of either component
  serverSelections,  \* the server's list of the student's selections (ids)
  created,           \* selections the server has created so far
  \* CourseSelectionPage (react-query)
  coursesQuery, teachersQuery, slotsQuery, selectionsQuery,
  createMutation, deleteMutation,
  \* CourseSelection (Redux slice + thunks in flight)
  availableCourses, availableTeachers, availableSlots, myCourseSelections,
  loading, error, thunks,
  resume,            \* handleSubmit of the Redux component is about to continue after its await
  \* one call of studentCourseApi
  apiCall,           \* the function called: "getAvailableSlots", "getAvailableCourses" or "none"
  network,           \* how the server answers each endpoint during the call
  pc,                \* where the call stands
  rest,              \* getAvailableSlots: the endpoints its loop has not visited yet
  requests,          \* the endpoints requested so far, in order
  lastError,         \* getAvailableSlots: let lastError
  studentInfo,       \* getAvailableCourses: const studentInfo (its data)
  result,            \* what the call returned or threw
  \* the session: AuthProvider, the response interceptor, the browser
  localStorage,      \* the persisted keys "token" and "user" ("null" when absent)
  user,              \* useState user of AuthProvider ("null" when anonymous)
  authError,         \* useState error of AuthProvider
  storedUser,        \* const storedUser of the last render of AuthProvider
  currentUserQuery,  \* the ['currentUser'] query
  route,             \* window.location.pathname
  referrer,          \* document.referrer: "", "same-origin" or "external"
  loginCall,         \* where a call of login() stands
  logoutCall,        \* where a call of logout() stands
  plainRequest,      \* a request of a page through api, and how it ended
  effects,           \* what the last step of login() or logout() did, in order
  loginFrom,         \* what localStorage held when login() was last called
  utility,           \* which utility a run exercises
  env,               \* import.meta.env.VITE_API_URL
  location,          \* window.location: hostname and protocol
  storedBaseUrl,     \* the persisted key "api_base_url"
  baseURL,           \* api.defaults.baseURL
  overridden,        \* api.setBaseUrl was called since the page loaded
  urlsToTest,        \* the candidates testApiConnection was called with
  probes,            \* how the health request of each candidate probed so far ended
  results,           \* results of testApiConnection, by url
  bestUrl,           \* bestUrl of testApiConnection
  bestResponseTime,  \* bestResponseTime of testApiConnection
  probePc,           \* "loop" or "returned"
  now,               \* new Date(): year and month index
  userData,          \* the persisted user as the semester calculator reads it
  calculated         \* the last call of the semester calculator and its result

selVars == <<selectedCourse, selectedTeacher, selectedSlot>>
serverVars == <<serverSelections, created>>
pageVars == <<coursesQuery, teachersQuery, slotsQuery, selectionsQuery,
              createMutation, deleteMutation>>
reduxVars == <<availableCourses, availableTeachers, availableSlots,
               myCourseSelections, loading, error, thunks, resume>>
apiVars == <<apiCall, network, pc, rest, requests, lastError, studentInfo, result>>
authVars == <<localStorage, user, authError, storedUser, currentUserQuery, route,
              referrer, loginCall, logoutCall, plainRequest, effects, loginFrom>>
probeVars == <<urlsToTest, probes, results, bestUrl, bestResponseTime, probePc>>
calcVars == <<now, userData, calculated>>
utilVars == <<utility, env, location, storedBaseUrl, baseURL, overridden,
              probeVars, calcVars>>
sessionVars == <<authVars, utilVars>>
vars == <<mounted, selVars, serverVars, pageVars, reduxVars, apiVars, sessionVars>>


(***************************************************************************)
(* react-query, as CourseSelectionPage uses it.  A query is kept per key:  *)
(* data is undefined (hasData = FALSE) until a fetch of that key succeeds; *)
(* a failed attempt is retried `retry` times while the key is observed.    *)
(***************************************************************************)
\* retry: 2 of the courses and of the teachers query.
RetryCourses == 2
RetryTeachers == 2

IdleQuery == [hasData |-> FALSE, data |-> <<>>, fetchStatus |-> "idle", failureCount |-> 0]
StartFetch(q) == [q EXCEPT !.fetchStatus = "fetching", !.failureCount = 0]
\* An observer arrives on a key: a fetch in flight is shared, data younger
\* than staleTime (5 minutes, longer than a run of the model) is served from
\* the cache, missing data is fetched.
Observe(q) ==
  IF q.fetchStatus # "idle" THEN q
  ELSE IF ~q.hasData THEN StartFetch(q) ELSE q
FetchSucceeded(q, data) ==
  [hasData |-> TRUE, data |-> data, fetchStatus |-> "idle", failureCount |-> 0]
\* A queryFn that threw: wait for a retry while attempts are left and the key
\* is observed, else settle in the error state keeping the data (the failure
\* count, which the page does not render, is not kept).
FetchFailed(q, retry, observed) ==
  IF q.failureCount < retry /\ observed
  THEN [q EXCEPT !.fetchStatus = "retryWait", !.failureCount = @ + 1]
  ELSE [q EXCEPT !.fetchStatus = "idle", !.failureCount = 0]
RetryFired_Unobserved(q, observed) == [q EXCEPT !.fetchStatus = "fetching"]

\* The retry delay is over: run the queryFn again unless the retry was
\* cancelled because the last observer left.
RetryFired(q, observed) ==
  IF observed THEN [q EXCEPT !.fetchStatus = "fetching"]
  ELSE [q EXCEPT !.fetchStatus = "idle", !.failureCount = 0]

\* The lists the page renders (data = [] while undefined).
courses == coursesQuery.data
teachers == IF selectedCourse = Empty THEN <<>> ELSE teachersQuery[selectedCourse].data
slots ==
  IF selectedCourse = Empty \/ selectedTeacher = Empty THEN <<>>
  ELSE slotsQuery[<<selectedCourse, selectedTeacher>>].data
mySelections == selectionsQuery.data
isLoadingTeachers ==
  selectedCourse # Empty /\ ~teachersQuery[selectedCourse].hasData
    /\ teachersQuery[selectedCourse].fetchStatus # "idle"
isCreating == createMutation.status # "idle"
isDeleting == deleteMutation.status # "idle"
PageShown == mounted = "page"

\* queryKey ['available-teachers', selectedCourse?.id], enabled: !!selectedCourse
TeachersObserved(c) == PageShown /\ selectedCourse = c
\* queryKey ['available-slots', selectedCourse?.id, selectedTeacher?.id]
SlotsObserved(k) == PageShown /\ selectedCourse = k[1] /\ selectedTeacher = k[2]

IdleMutation == [status |-> "idle", variables |-> <<>>]
\* queryClient.invalidateQueries(['my-selections']) followed by refetchSelections():
\* a fetch in flight is cancelled and replaced when the query already has data;
\* the first load, still in flight, is shared instead.
RefetchSelections(q) ==
  IF q.fetchStatus # "idle" /\ ~q.hasData THEN q
  ELSE [q EXCEPT !.fetchStatus = "sent", !.snap = <<>>, !.ok = FALSE]

(***************************************************************************)
(* CourseSelectionPage: the handlers.                                      *)
(***************************************************************************)
\* The three state updates of handleSelectCourse.
SelectCourseState_KeepsSlot(course) ==
  /\ selectedCourse' = course
  /\ selectedTeacher' = Empty
  /\ UNCHANGED selectedSlot

SelectCourseState_KeepsTeacher(course) ==
  /\ selectedCourse' = course
  /\ UNCHANGED selectedTeacher
  /\ selectedSlot' = Empty

SelectCourseState(course) ==
  /\ selectedCourse' = course
  /\ selectedTeacher' = Empty
  /\ selectedSlot' = Empty

\* handleSelectCourse, from a card of the rendered course list.  The teachers
\* query moves to the key of the new course.
handleSelectCourse(course) ==
  /\ PageShown
  /\ course \in Range(courses)
  /\ SelectCourseState(course)
  /\ teachersQuery' =
       IF course = selectedCourse THEN teachersQuery
       ELSE [teachersQuery EXCEPT ![course] = Observe(@)]
  /\ UNCHANGED <<mounted, apiVars, sessionVars, serverVars, coursesQuery, slotsQuery, selectionsQuery,
                 createMutation, deleteMutation, reduxVars>>

\* handleSelectTeacher, from a row of the rendered teacher list.  The slots
\* query moves to the key of (selected course, new teacher).
handleSelectTeacher(teacher) ==
  /\ PageShown
  /\ selectedCourse # Empty
  /\ ~isLoadingTeachers
  /\ teacher \in Range(teachers)
  /\ selectedTeacher' = teacher
  /\ selectedSlot' = Empty
  /\ slotsQuery' =
       IF teacher = selectedTeacher THEN slotsQuery
       ELSE [slotsQuery EXCEPT ![<<selectedCourse, teacher>>] = Observe(@)]
  /\ UNCHANGED <<mounted, apiVars, sessionVars, selectedCourse, serverVars, coursesQuery, teachersQuery,
                 selectionsQuery, createMutation, deleteMutation, reduxVars>>

\* handleSelectSlot, from a card of the rendered slot list.
handleSelectSlot(slot) ==
  /\ PageShown
  /\ selectedTeacher # Empty
  /\ slot \in Range(slots)
  /\ selectedSlot' = slot
  /\ UNCHANGED <<mounted, apiVars, sessionVars, selectedCourse, selectedTeacher, serverVars, pageVars, reduxVars>>

SubmitAllowed_IgnoresSlot == selectedCourse # Empty /\ selectedTeacher # Empty

\* The test at the head of handleSubmit (both components).
SubmitAllowed == selectedCourse # Empty /\ selectedTeacher # Empty /\ selectedSlot # Empty

\* handleSubmit of the page.  The button is disabled while isCreating; its
\* other three disabled conditions repeat the handler's own test, so a press
\* they would stop is taken to the handler's early return.
handleSubmit ==
  /\ PageShown
  /\ ~isCreating
  /\ IF SubmitAllowed
     THEN createMutation' =
            [status |-> "sent",
             variables |-> <<selectedCourse, selectedTeacher, selectedSlot>>]
     ELSE UNCHANGED createMutation
  /\ UNCHANGED <<mounted, apiVars, sessionVars, selVars, serverVars, coursesQuery, teachersQuery, slotsQuery,
                 selectionsQuery, deleteMutation, reduxVars>>

\* The Remove button of a rendered selection: deleteSelection(selection.id).
deleteSelection(id) ==
  /\ PageShown
  /\ ~isDeleting
  /\ id \in Range(mySelections)
  /\ deleteMutation' = [status |-> "sent", variables |-> <<id>>]
  /\ UNCHANGED <<mounted, apiVars, sessionVars, selVars, serverVars, coursesQuery, teachersQuery, slotsQuery,
                 selectionsQuery, createMutation, reduxVars>>

(***************************************************************************)
(* CourseSelectionPage: responses.                                         *)
(***************************************************************************)
\* The courses queryFn returns, or throws (studentCourseApi.getAvailableCourses
\* threw); the query is observed as long as the page is shown.
CoursesResponse ==
  /\ PageShown
  /\ coursesQuery.fetchStatus = "fetching"
  /\ \E ok \in BOOLEAN :
       coursesQuery' = IF ok THEN FetchSucceeded(coursesQuery, ServerCourses)
                       ELSE FetchFailed(coursesQuery, RetryCourses, TRUE)
  /\ UNCHANGED <<mounted, apiVars, sessionVars, selVars, serverVars, teachersQuery, slotsQuery, selectionsQuery,
                 createMutation, deleteMutation, reduxVars>>

CoursesRetry ==
  /\ PageShown
  /\ coursesQuery.fetchStatus = "retryWait"
  /\ coursesQuery' = RetryFired(coursesQuery, TRUE)
  /\ UNCHANGED <<mounted, apiVars, sessionVars, selVars, serverVars, teachersQuery, slotsQuery, selectionsQuery,
                 createMutation, deleteMutation, reduxVars>>

\* The teachers queryFn of key c returns the mapped list, or rethrows.
TeachersResponse(c) ==
  /\ PageShown
  /\ teachersQuery[c].fetchStatus = "fetching"
  /\ \E ok \in BOOLEAN :
       teachersQuery' =
         [teachersQuery EXCEPT ![c] =
            IF ok THEN FetchSucceeded(@, TeachersOf(c))
            ELSE FetchFailed(@, RetryTeachers, TeachersObserved(c))]
  /\ UNCHANGED <<mounted, apiVars, sessionVars, selVars, serverVars, coursesQuery, slotsQuery, selectionsQuery,
                 createMutation, deleteMutation, reduxVars>>

TeachersRetry(c) ==
  /\ PageShown
  /\ teachersQuery[c].fetchStatus = "retryWait"
  /\ teachersQuery' = [teachersQuery EXCEPT ![c] = RetryFired(@, TeachersObserved(c))]
  /\ UNCHANGED <<mounted, apiVars, sessionVars, selVars, serverVars, coursesQuery, slotsQuery, selectionsQuery,
                 createMutation, deleteMutation, reduxVars>>

\* The slots queryFn of key k returns: the list of a filtered endpoint, the
\* unfiltered list of the generic endpoint (response.data.slots), or [] from
\* its catch block when getAvailableSlots threw.  It never throws.
SlotsResponse(k) ==
  /\ PageShown
  /\ slotsQuery[k].fetchStatus = "fetching"
  /\ \E outcome \in {"filtered", "generic", "failed"} :
       slotsQuery' =
         [slotsQuery EXCEPT ![k] =
            FetchSucceeded(@, CASE outcome = "filtered" -> SlotsOf(k[1], k[2])
                                [] outcome = "generic" -> AllSlots
                                [] OTHER -> <<>>)]
  /\ UNCHANGED <<mounted, apiVars, sessionVars, selVars, serverVars, coursesQuery, teachersQuery, selectionsQuery,
                 createMutation, deleteMutation, reduxVars>>

\* The server answers the request of the my-selections fetch in flight: its
\* list at that moment, or a failure.
SelectionsServed ==
  /\ PageShown
  /\ selectionsQuery.fetchStatus = "sent"
  /\ \E ok \in BOOLEAN :
       selectionsQuery' =
         [selectionsQuery EXCEPT !.fetchStatus = "answered", !.ok = ok,
                                 !.snap = IF ok THEN serverSelections ELSE <<>>]
  /\ UNCHANGED <<mounted, apiVars, sessionVars, selVars, serverVars, coursesQuery, teachersQuery, slotsQuery,
                 createMutation, deleteMutation, reduxVars>>

\* The my-selections queryFn returns: getMyCourseSelections resolves to
\* { data: [] } when the request failed, so the query always succeeds.
SelectionsResponse ==
  /\ PageShown
  /\ selectionsQuery.fetchStatus = "answered"
  /\ selectionsQuery' =
       [selectionsQuery EXCEPT !.fetchStatus = "idle", !.hasData = TRUE,
                               !.data = IF selectionsQuery.ok THEN selectionsQuery.snap
                                        ELSE <<>>]
  /\ UNCHANGED <<mounted, apiVars, sessionVars, selVars, serverVars, coursesQuery, teachersQuery, slotsQuery,
                 createMutation, deleteMutation, reduxVars>>

(***************************************************************************)
(* The server of record handling the mutating requests of the page.        *)
(***************************************************************************)
\* POST /api/student-courses/courses/: the selection is created with the next
\* id, or the request fails.
CreateServed ==
  /\ PageShown
  /\ createMutation.status = "sent"
  /\ \/ /\ created < MaxCreates
        /\ created' = created + 1
        /\ serverSelections' = Append(serverSelections, created + 1)
        /\ createMutation' = [createMutation EXCEPT !.status = "succeeded"]
     \/ /\ createMutation' = [createMutation EXCEPT !.status = "failed"]
        /\ UNCHANGED serverVars
  /\ UNCHANGED <<mounted, apiVars, sessionVars, selVars, coursesQuery, teachersQuery, slotsQuery, selectionsQuery,
                 deleteMutation, reduxVars>>

\* DELETE /api/student-courses/courses/{id}/
DeleteServed ==
  /\ PageShown
  /\ deleteMutation.status = "sent"
  /\ \/ /\ deleteMutation.variables[1] \in Range(serverSelections)
        /\ serverSelections' = Filter(serverSelections, deleteMutation.variables[1])
        /\ deleteMutation' = [deleteMutation EXCEPT !.status = "succeeded"]
        /\ UNCHANGED created
     \/ /\ deleteMutation' = [deleteMutation EXCEPT !.status = "failed"]
        /\ UNCHANGED serverVars
  /\ UNCHANGED <<mounted, apiVars, sessionVars, selVars, coursesQuery, teachersQuery, slotsQuery, selectionsQuery,
                 createMutation, reduxVars>>

\* createSelection.onSuccess
CreateOnSuccess ==
  /\ PageShown
  /\ createMutation.status = "succeeded"
  /\ selectionsQuery' = RefetchSelections(selectionsQuery)
  /\ selectedCourse' = Empty
  /\ selectedTeacher' = Empty
  /\ selectedSlot' = Empty
  /\ createMutation' = IdleMutation
  /\ UNCHANGED <<mounted, apiVars, sessionVars, serverVars, coursesQuery, teachersQuery, slotsQuery,
                 deleteMutation, reduxVars>>

CreateOnError_ResetsForm ==
  /\ PageShown
  /\ createMutation.status = "failed"
  /\ createMutation' = IdleMutation
  /\ selectedCourse' = Empty
  /\ selectedTeacher' = Empty
  /\ selectedSlot' = Empty
  /\ UNCHANGED <<mounted, apiVars, sessionVars, serverVars, coursesQuery, teachersQuery, slotsQuery,
                 selectionsQuery, deleteMutation, reduxVars>>

\* createSelection.onError: a toast, nothing else.
CreateOnError ==
  /\ PageShown
  /\ createMutation.status = "failed"
  /\ createMutation' = IdleMutation
  /\ UNCHANGED <<mounted, apiVars, sessionVars, selVars, serverVars, coursesQuery, teachersQuery, slotsQuery,
                 selectionsQuery, deleteMutation, reduxVars>>

\* deleteSelection.onSuccess
DeleteOnSuccess ==
  /\ PageShown
  /\ deleteMutation.status = "succeeded"
  /\ selectionsQuery' = RefetchSelections(selectionsQuery)
  /\ deleteMutation' = IdleMutation
  /\ UNCHANGED <<mounted, apiVars, sessionVars, selVars, serverVars, coursesQuery, teachersQuery, slotsQuery,
                 createMutation, reduxVars>>

\* deleteSelection.onError
DeleteOnError ==
  /\ PageShown
  /\ deleteMutation.status = "failed"
  /\ deleteMutation' = IdleMutation
  /\ UNCHANGED <<mounted, apiVars, sessionVars, selVars, serverVars, coursesQuery, teachersQuery, slotsQuery,
                 selectionsQuery, createMutation, reduxVars>>

(***************************************************************************)
(* The Redux store of CourseSelection: the thunks in flight and the slice's *)
(* reducers.  thunks is a bag kept as a set: equal thunks differ in n.      *)
(***************************************************************************)
Thunk(type, arg, phase) == [type |-> type, arg |-> arg, phase |-> phase, n |-> 0]
Copies(T, x) == {y \in T : [y EXCEPT !.n = 0] = [x EXCEPT !.n = 0]}
AddThunk(T, x) == T \cup {[x EXCEPT !.n = Cardinality(Copies(T, x)) + 1]}
RemoveThunk(T, x) == T \ {[x EXCEPT !.n = Cardinality(Copies(T, x))]}
\* One of each group of equal thunks stands for the group.
InFlight(type) == {x \in thunks : x.type = type /\ x.n = 1}

\* The form is rendered only while loading is false; nothing else runs while
\* handleSubmit is about to continue after its await.
FormShown == mounted = "redux" /\ ~loading /\ ~resume
StoreRuns == mounted \in {"redux", "crashed"} /\ ~resume

\* Every <thunk>.pending case of the slice.
PendingReducer ==
  /\ loading' = TRUE
  /\ error' = "null"

\* Every <thunk>.rejected case of the slice.
RejectedReducer(message) ==
  /\ loading' = FALSE
  /\ error' = message

\* handleCourseChange, from an option of the course Select.
handleCourseChange(courseId) ==
  /\ FormShown
  /\ courseId \in Range(availableCourses)
  /\ selectedCourse' = courseId
  /\ selectedTeacher' = Empty
  /\ selectedSlot' = Empty
  /\ IF courseId # Empty
     THEN /\ thunks' = AddThunk(thunks, Thunk("fetchAvailableTeachers", <<courseId>>, "sent"))
          /\ PendingReducer
     ELSE UNCHANGED <<thunks, loading, error>>
  /\ UNCHANGED <<mounted, apiVars, sessionVars, serverVars, pageVars, availableCourses, availableTeachers,
                 availableSlots, myCourseSelections, resume>>

\* handleTeacherChange, from an option of the teacher Select (disabled while
\* no course is selected).
handleTeacherChange(teacherId) ==
  /\ FormShown
  /\ selectedCourse # Empty
  /\ teacherId \in Range(availableTeachers)
  /\ selectedTeacher' = teacherId
  /\ selectedSlot' = Empty
  /\ IF teacherId # Empty /\ selectedCourse # Empty
     THEN /\ thunks' = AddThunk(thunks, Thunk("fetchAvailableSlots",
                                              <<selectedCourse, teacherId>>, "sent"))
          /\ PendingReducer
     ELSE UNCHANGED <<thunks, loading, error>>
  /\ UNCHANGED <<mounted, apiVars, sessionVars, selectedCourse, serverVars, pageVars, availableCourses,
                 availableTeachers, availableSlots, myCourseSelections, resume>>

\* onChange of the slot Select (disabled while no teacher is selected).
setSelectedSlot(slotId) ==
  /\ FormShown
  /\ selectedTeacher # Empty
  /\ slotId \in Range(availableSlots)
  /\ selectedSlot' = slotId
  /\ UNCHANGED <<mounted, apiVars, sessionVars, selectedCourse, selectedTeacher, serverVars, pageVars, reduxVars>>

\* handleSubmit of the Redux component, up to its await.  The button's
\* disabled conditions repeat the handler's own test.
handleSubmitRedux ==
  /\ FormShown
  /\ IF SubmitAllowed
     THEN /\ thunks' = AddThunk(thunks, Thunk("createCourseSelection", <<>>, "sent"))
          /\ PendingReducer
     ELSE UNCHANGED <<thunks, loading, error>>
  /\ UNCHANGED <<mounted, apiVars, sessionVars, selVars, serverVars, pageVars, availableCourses,
                 availableTeachers, availableSlots, myCourseSelections, resume>>

\* handleDelete, from the Remove button of a listed selection.
handleDelete(id) ==
  /\ FormShown
  /\ id \in Range(myCourseSelections)
  /\ thunks' = AddThunk(thunks, Thunk("deleteCourseSelection", <<id>>, "sent"))
  /\ PendingReducer
  /\ UNCHANGED <<mounted, apiVars, sessionVars, selVars, serverVars, pageVars, availableCourses,
                 availableTeachers, availableSlots, myCourseSelections, resume>>

\* fetchAvailableCourses settles.
FetchCoursesSettled ==
  /\ StoreRuns
  /\ \E x \in InFlight("fetchAvailableCourses") :
       /\ thunks' = RemoveThunk(thunks, x)
       /\ \/ /\ availableCourses' = ServerCourses
             /\ loading' = FALSE
             /\ UNCHANGED error
          \/ /\ RejectedReducer("Failed to fetch available courses")
             /\ UNCHANGED availableCourses
  /\ UNCHANGED <<mounted, apiVars, sessionVars, selVars, serverVars, pageVars, availableTeachers,
                 availableSlots, myCourseSelections, resume>>

\* fetchAvailableTeachers(courseId) settles: the payload is bound whatever
\* course is selected by then.
FetchTeachersSettled ==
  /\ StoreRuns
  /\ \E x \in InFlight("fetchAvailableTeachers") :
       /\ thunks' = RemoveThunk(thunks, x)
       /\ \/ /\ availableTeachers' = TeachersOf(x.arg[1])
             /\ loading' = FALSE
             /\ UNCHANGED error
          \/ /\ RejectedReducer("Failed to fetch available teachers")
             /\ UNCHANGED availableTeachers
  /\ UNCHANGED <<mounted, apiVars, sessionVars, selVars, serverVars, pageVars, availableCourses,
                 availableSlots, myCourseSelections, resume>>

\* fetchAvailableSlots({courseId, teacherId}) settles.  The payload of the
\* generic endpoint is the object { warning, slots }, not an array: the next
\* render of the form throws on availableSlots.map and the component is gone.
FetchSlotsSettled ==
  /\ StoreRuns
  /\ \E x \in InFlight("fetchAvailableSlots") :
       /\ thunks' = RemoveThunk(thunks, x)
       /\ \/ /\ availableSlots' = SlotsOf(x.arg[1], x.arg[2])
             /\ loading' = FALSE
             /\ UNCHANGED <<error, mounted>>
          \/ /\ availableSlots' = <<>>
             /\ mounted' = "crashed"
             /\ loading' = FALSE
             /\ UNCHANGED error
          \/ /\ RejectedReducer("Failed to fetch available slots")
             /\ UNCHANGED <<availableSlots, mounted>>
  /\ UNCHANGED <<apiVars, sessionVars, selVars, serverVars, pageVars, availableCourses,
                 availableTeachers, myCourseSelections, resume>>

\* The server answers the request of a fetchMyCourseSelections thunk.
FetchSelectionsServed ==
  /\ StoreRuns
  /\ \E x \in InFlight("fetchMyCourseSelections") :
       /\ x.phase = "sent"
       /\ \E ok \in BOOLEAN :
            thunks' = AddThunk(RemoveThunk(thunks, x),
                               Thunk("fetchMyCourseSelections",
                                     IF ok THEN serverSelections ELSE <<>>,
                                     IF ok THEN "succeeded" ELSE "failed"))
  /\ UNCHANGED <<mounted, apiVars, sessionVars, selVars, serverVars, pageVars, availableCourses, availableTeachers,
                 availableSlots, myCourseSelections, loading, error, resume>>

\* fetchMyCourseSelections settles: always fulfilled, since
\* getMyCourseSelections resolves to { data: [] } when the request failed.
FetchSelectionsSettled ==
  /\ StoreRuns
  /\ \E x \in InFlight("fetchMyCourseSelections") :
       /\ x.phase # "sent"
       /\ thunks' = RemoveThunk(thunks, x)
       /\ myCourseSelections' = x.arg
       /\ loading' = FALSE
  /\ UNCHANGED <<mounted, apiVars, sessionVars, selVars, serverVars, pageVars, availableCourses, availableTeachers,
                 availableSlots, error, resume>>

\* The server handles the POST of a createCourseSelection thunk.
CreateThunkServed ==
  /\ StoreRuns
  /\ \E x \in InFlight("createCourseSelection") :
       /\ x.phase = "sent"
       /\ \/ /\ created < MaxCreates
             /\ created' = created + 1
             /\ serverSelections' = Append(serverSelections, created + 1)
             /\ thunks' = AddThunk(RemoveThunk(thunks, x),
                                   [x EXCEPT !.phase = "succeeded"])
          \/ /\ thunks' = AddThunk(RemoveThunk(thunks, x), [x EXCEPT !.phase = "failed"])
             /\ UNCHANGED serverVars
  /\ UNCHANGED <<mounted, apiVars, sessionVars, selVars, pageVars, availableCourses, availableTeachers,
                 availableSlots, myCourseSelections, loading, error, resume>>

\* createCourseSelection settles (fulfilled or rejected reducer); the promise
\* handleSubmit awaits resolves either way.
CreateSettled ==
  /\ StoreRuns
  /\ \E x \in InFlight("createCourseSelection") :
       /\ x.phase # "sent"
       /\ thunks' = RemoveThunk(thunks, x)
       /\ IF x.phase = "succeeded"
          THEN loading' = FALSE /\ UNCHANGED error
          ELSE RejectedReducer("Failed to create course selection")
  /\ resume' = TRUE
  /\ UNCHANGED <<mounted, apiVars, sessionVars, selVars, serverVars, pageVars, availableCourses, availableTeachers,
                 availableSlots, myCourseSelections>>

\* handleSubmit after its await: reset the form, refresh the selections.
handleSubmitResume ==
  /\ resume
  /\ resume' = FALSE
  /\ selectedCourse' = Empty
  /\ selectedTeacher' = Empty
  /\ selectedSlot' = Empty
  /\ thunks' = AddThunk(thunks, Thunk("fetchMyCourseSelections", <<>>, "sent"))
  /\ PendingReducer
  /\ UNCHANGED <<mounted, apiVars, sessionVars, serverVars, pageVars, availableCourses, availableTeachers,
                 availableSlots, myCourseSelections>>

\* The server handles the DELETE of a deleteCourseSelection thunk.
DeleteThunkServed ==
  /\ StoreRuns
  /\ \E x \in InFlight("deleteCourseSelection") :
       /\ x.phase = "sent"
       /\ \/ /\ x.arg[1] \in Range(serverSelections)
             /\ serverSelections' = Filter(serverSelections, x.arg[1])
             /\ thunks' = AddThunk(RemoveThunk(thunks, x),
                                   [x EXCEPT !.phase = "succeeded"])
             /\ UNCHANGED created
          \/ /\ thunks' = AddThunk(RemoveThunk(thunks, x), [x EXCEPT !.phase = "failed"])
             /\ UNCHANGED serverVars
  /\ UNCHANGED <<mounted, apiVars, sessionVars, selVars, pageVars, availableCourses, availableTeachers,
                 availableSlots, myCourseSelections, loading, error, resume>>

\* deleteCourseSelection settles.
DeleteSettled ==
  /\ StoreRuns
  /\ \E x \in InFlight("deleteCourseSelection") :
       /\ x.phase # "sent"
       /\ thunks' = RemoveThunk(thunks, x)
       /\ IF x.phase = "succeeded"
          THEN /\ myCourseSelections' = Filter(myCourseSelections, x.arg[1])
               /\ loading' = FALSE
               /\ UNCHANGED error
          ELSE /\ RejectedReducer("Failed to delete course selection")
               /\ UNCHANGED myCourseSelections
  /\ UNCHANGED <<mounted, apiVars, sessionVars, selVars, serverVars, pageVars, availableCourses, availableTeachers,
                 availableSlots, resume>>

ReduxNext ==
  \/ \E c \in CourseIds : handleCourseChange(c)
  \/ \E t \in TeacherIds : handleTeacherChange(t)
  \/ \E s \in Range(AllSlots) : setSelectedSlot(s)
  \/ handleSubmitRedux
  \/ \E id \in SelectionIds : handleDelete(id)
  \/ FetchCoursesSettled
  \/ FetchTeachersSettled
  \/ FetchSlotsSettled
  \/ FetchSelectionsServed
  \/ FetchSelectionsSettled
  \/ CreateThunkServed
  \/ CreateSettled
  \/ handleSubmitResume
  \/ DeleteThunkServed
  \/ DeleteSettled

PageNext ==
  \/ \E c \in CourseIds : handleSelectCourse(c)
  \/ \E t \in TeacherIds : handleSelectTeacher(t)
  \/ \E s \in Range(AllSlots) : handleSelectSlot(s)
  \/ handleSubmit
  \/ \E id \in SelectionIds : deleteSelection(id)
  \/ CoursesResponse
  \/ CoursesRetry
  \/ \E c \in CourseIds : TeachersResponse(c)
  \/ \E c \in CourseIds : TeachersRetry(c)
  \/ \E k \in SlotKeys : SlotsResponse(k)
  \/ SelectionsServed
  \/ SelectionsResponse
  \/ CreateServed
  \/ DeleteServed
  \/ CreateOnSuccess
  \/ CreateOnError
  \/ DeleteOnSuccess
  \/ DeleteOnError

(***************************************************************************)
(* studentCourseApi: one call of getAvailableSlots or getAvailableCourses. *)
(* Every endpoint is requested at most once in a call, so the server's     *)
(* behaviour during the call is one answer per endpoint.  A successful     *)
(* response carries data that tells the endpoints apart, a failed request  *)
(* rejects with an error that names its endpoint.                          *)
(***************************************************************************)
uiVars == <<mounted, selVars, serverVars, pageVars, reduxVars>>

\* const endpoints of getAvailableSlots, in order of preference.
SlotEndpoints ==
  <<"/api/student-courses/courses/available_slots/",
    "/api/student-courses/courses/filtered_slots/",
    "/api/timetable/timetables/",
    "/api/slot/">>
AuthProfile == "/api/auth/profile/"
StudentProfile == "/api/students/profile/"
PrimaryCourses == "/api/student-courses/courses/available_courses/"
FilteredCourses == "/api/student-courses/courses/filtered_courses/"
AllCourses == "/api/course/"
CourseEndpoints == <<PrimaryCourses, FilteredCourses, AllCourses>>

\* The rejection of api.get(endpoint), and the errors raised by the code.
RequestError(endpoint) == [message |-> endpoint]
NoError == [message |-> "null"]
NoProfileData == [message |-> "No profile data available"]
TypeError == [message |-> "TypeError"]
Pending == [kind |-> "pending"]
Returned(response) == [kind |-> "returned", value |-> response]
Thrown(err) == [kind |-> "thrown", error |-> err]

\* What the server holds: the student's profile and the course catalogue of
\* /api/course/ (one course of the student, one of another department, one
\* of another semester).
StudentData == [dept_id |-> "d1", current_semester |-> "s1"]
NullData == [null |-> TRUE]
IsNull(data) == "null" \in DOMAIN data
Catalogue ==
  << [id |-> "c1", for_dept_id |-> "d1", course_semester |-> "s1"],
     [id |-> "c2", for_dept_id |-> "d2", course_semester |-> "s1"],
     [id |-> "c3", for_dept_id |-> "d1", course_semester |-> "s2"] >>
\* response.data of a successful request to an endpoint; "ok", "empty",
\* "null" and "object" are the shapes a 2xx answer can have.
ResponseData(endpoint, answer) ==
  IF endpoint = AllCourses
  THEN (IF answer = "empty" THEN <<>> ELSE Catalogue)
  ELSE <<endpoint>>

Request(endpoint) == requests' = Append(requests, endpoint)
Failed(endpoint) == network[endpoint] = "error"

\* catch (error) of the loop of getAvailableSlots: lastError = error.
CaughtError_KeepsFirst(last, err) == IF last = NoError THEN err ELSE last
CaughtError(last, err) == err

\* What getAvailableSlots returns for a successful response of an endpoint:
\* the response itself, or for /api/slot/ its data wrapped with a warning.
SlotsReturn(endpoint, data) ==
  IF endpoint = "/api/slot/"
  THEN [data |-> [warning |-> "Using generic slots as fallback. Time conflicts may not be detected.",
                  slots |-> data]]
  ELSE [data |-> data]

\* One turn of the for loop of getAvailableSlots: request the next endpoint,
\* return on success, remember the error and go on otherwise.
SlotsLoop ==
  /\ apiCall = "getAvailableSlots"
  /\ pc = "loop"
  /\ rest # <<>>
  /\ LET endpoint == Head(rest) IN
       /\ Request(endpoint)
       /\ IF Failed(endpoint)
          THEN /\ lastError' = CaughtError(lastError, RequestError(endpoint))
               /\ rest' = Tail(rest)
               /\ UNCHANGED <<pc, result>>
          ELSE /\ result' = Returned(SlotsReturn(endpoint, ResponseData(endpoint, network[endpoint])))
               /\ pc' = "done"
               /\ UNCHANGED <<rest, lastError>>
  /\ UNCHANGED <<uiVars, sessionVars, apiCall, network, studentInfo>>

\* The loop ran out of endpoints: throw lastError.
SlotsThrow ==
  /\ apiCall = "getAvailableSlots"
  /\ pc = "loop"
  /\ rest = <<>>
  /\ result' = Thrown(lastError)
  /\ pc' = "done"
  /\ UNCHANGED <<uiVars, sessionVars, apiCall, network, rest, requests, lastError, studentInfo>>

\* if (!profileCheck.data) of getAvailableCourses.
NoData_Never(answer) == FALSE
NoData(answer) == answer = "empty"

\* getAvailableCourses: the profile check.
CoursesProfileCheck ==
  /\ apiCall = "getAvailableCourses"
  /\ pc = "profileCheck"
  /\ Request(AuthProfile)
  /\ IF Failed(AuthProfile)
     THEN result' = Thrown(RequestError(AuthProfile)) /\ pc' = "done"
     ELSE IF NoData(network[AuthProfile])
          THEN result' = Thrown(NoProfileData) /\ pc' = "done"
          ELSE pc' = "studentInfo" /\ UNCHANGED result
  /\ UNCHANGED <<uiVars, sessionVars, apiCall, network, rest, lastError, studentInfo>>

\* getAvailableCourses: the student profile.
CoursesStudentInfo ==
  /\ apiCall = "getAvailableCourses"
  /\ pc = "studentInfo"
  /\ Request(StudentProfile)
  /\ IF Failed(StudentProfile)
     THEN /\ result' = Thrown(RequestError(StudentProfile))
          /\ pc' = "done"
          /\ UNCHANGED studentInfo
     ELSE /\ studentInfo' = (IF network[StudentProfile] = "null" THEN NullData ELSE StudentData)
          /\ pc' = "primary"
          /\ UNCHANGED result
  /\ UNCHANGED <<uiVars, sessionVars, apiCall, network, rest, lastError>>

\* getAvailableCourses: the primary endpoint.
CoursesPrimary ==
  /\ apiCall = "getAvailableCourses"
  /\ pc = "primary"
  /\ Request(PrimaryCourses)
  /\ IF Failed(PrimaryCourses)
     THEN pc' = "filtered" /\ UNCHANGED result
     ELSE /\ result' = Returned([data |-> ResponseData(PrimaryCourses, network[PrimaryCourses])])
          /\ pc' = "done"
  /\ UNCHANGED <<uiVars, sessionVars, apiCall, network, rest, lastError, studentInfo>>

\* getAvailableCourses: the filtered endpoint.  Its params read
\* studentInfo.data.dept_id inside the try block: with null data that
\* throws before the request is sent, and the catch goes on as for a failed
\* request.
CoursesFiltered ==
  /\ apiCall = "getAvailableCourses"
  /\ pc = "filtered"
  /\ IF IsNull(studentInfo)
     THEN pc' = "allCourses" /\ UNCHANGED <<requests, result>>
     ELSE /\ Request(FilteredCourses)
          /\ IF Failed(FilteredCourses)
             THEN pc' = "allCourses" /\ UNCHANGED result
             ELSE /\ result' = Returned([data |-> ResponseData(FilteredCourses, network[FilteredCourses])])
                  /\ pc' = "done"
  /\ UNCHANGED <<uiVars, sessionVars, apiCall, network, rest, lastError, studentInfo>>

RECURSIVE filteredCourses(_, _)
\* allCoursesResponse.data.filter(course => course.for_dept_id ===
\* studentInfo.data.dept_id && course.course_semester ===
\* studentInfo.data.current_semester)
filteredCourses(data, info) ==
  IF data = <<>> THEN <<>>
  ELSE IF Head(data).for_dept_id = info.dept_id
            /\ Head(data).course_semester = info.current_semester
       THEN <<Head(data)>> \o filteredCourses(Tail(data), info)
       ELSE filteredCourses(Tail(data), info)

\* getAvailableCourses: the last resort, all courses filtered client-side.
\* .filter is not a function of a payload that is no array, and its callback
\* reads studentInfo.data.dept_id for every course of the array.
CoursesAll ==
  /\ apiCall = "getAvailableCourses"
  /\ pc = "allCourses"
  /\ Request(AllCourses)
  /\ pc' = "done"
  /\ result' =
       IF Failed(AllCourses) THEN Thrown(RequestError(AllCourses))
       ELSE IF network[AllCourses] = "object" THEN Thrown(TypeError)
       ELSE LET data == ResponseData(AllCourses, network[AllCourses]) IN
            IF data # <<>> /\ IsNull(studentInfo) THEN Thrown(TypeError)
            ELSE Returned([data |-> filteredCourses(data, studentInfo)])
  /\ UNCHANGED <<uiVars, sessionVars, apiCall, network, rest, lastError, studentInfo>>

\* The calls that catch the failure of their request and answer with a
\* fallback: getMyCourseSelections and getDepartments of studentCourseApi,
\* getAcademicInfo of studentProfileApi.
FallbackCalls == {"getMyCourseSelections", "getDepartments", "getAcademicInfo"}
FallbackEndpoint(call) ==
  IF call = "getMyCourseSelections" THEN "/api/student-courses/courses/dashboard/"
  ELSE IF call = "getDepartments" THEN "/api/department/"
  ELSE "/api/students/academic-info/"
\* {} of return { data: { } }
EmptyObject == [keys |-> {}]
\* return { data: [] }, and return { data: { } } of getAcademicInfo
Fallback(call) ==
  IF call = "getAcademicInfo" THEN [data |-> EmptyObject] ELSE [data |-> <<>>]

\* try { return await api.get(endpoint) } catch (error) { return fallback }
GetWithFallback_Rethrows(call) ==
  /\ apiCall = call
  /\ pc = "request"
  /\ Request(FallbackEndpoint(call))
  /\ result' = IF Failed(FallbackEndpoint(call))
               THEN Thrown(RequestError(FallbackEndpoint(call)))
               ELSE Returned([data |-> ResponseData(FallbackEndpoint(call),
                                                    network[FallbackEndpoint(call)])])
  /\ pc' = "done"
  /\ UNCHANGED <<uiVars, sessionVars, apiCall, network, rest, lastError, studentInfo>>
GetWithFallback(call) ==
  /\ apiCall = call
  /\ pc = "request"
  /\ Request(FallbackEndpoint(call))
  /\ result' = IF Failed(FallbackEndpoint(call))
               THEN Returned(Fallback(call))
               ELSE Returned([data |-> ResponseData(FallbackEndpoint(call),
                                                    network[FallbackEndpoint(call)])])
  /\ pc' = "done"
  /\ UNCHANGED <<uiVars, sessionVars, apiCall, network, rest, lastError, studentInfo>>

ApiNext ==
  \/ \E call \in FallbackCalls : GetWithFallback(call)
  \/ SlotsLoop
  \/ SlotsThrow
  \/ CoursesProfileCheck
  \/ CoursesStudentInfo
  \/ CoursesPrimary
  \/ CoursesFiltered
  \/ CoursesAll

\* No call of studentCourseApi is followed.
InitNoCall ==
  /\ apiCall = "none"
  /\ network = <<>>
  /\ pc = "done"
  /\ rest = <<>>
  /\ requests = <<>>
  /\ lastError = NoError
  /\ studentInfo = NullData
  /\ result = Pending

\* getAvailableSlots(courseId, teacherId) is entered; each endpoint answers
\* or fails.
InitSlotsCall ==
  /\ apiCall = "getAvailableSlots"
  /\ network \in [Range(SlotEndpoints) -> {"ok", "error"}]
  /\ pc = "loop"
  /\ rest = SlotEndpoints
  /\ requests = <<>>
  /\ lastError = NoError
  /\ studentInfo = NullData
  /\ result = Pending

\* One of the calls with a fallback is entered; its endpoint answers or
\* fails.
InitFallbackCall ==
  /\ apiCall \in FallbackCalls
  /\ network \in [{FallbackEndpoint(apiCall)} -> {"ok", "error"}]
  /\ pc = "request"
  /\ rest = <<>>
  /\ requests = <<>>
  /\ lastError = NoError
  /\ studentInfo = NullData
  /\ result = Pending

\* The answers of the endpoints of getAvailableCourses: a failure, or a 2xx
\* response whose data is as expected ("ok"), empty, null or no array.
CourseAnswers(endpoint) ==
  IF endpoint = AuthProfile THEN {"ok", "empty", "error"}
  ELSE IF endpoint = StudentProfile THEN {"ok", "null", "error"}
  ELSE IF endpoint = AllCourses THEN {"ok", "empty", "object", "error"}
  ELSE {"ok", "error"}

\* getAvailableCourses() is entered.
InitCoursesCall ==
  /\ apiCall = "getAvailableCourses"
  /\ network \in {f \in [{AuthProfile, StudentProfile} \cup Range(CourseEndpoints) ->
                          {"ok", "empty", "null", "object", "error"}] :
                    \A e \in DOMAIN f : f[e] \in CourseAnswers(e)}
  /\ pc = "profileCheck"
  /\ rest = <<>>
  /\ requests = <<>>
  /\ lastError = NoError
  /\ studentInfo = NullData
  /\ result = Pending

(***************************************************************************)
(* The session: AuthProvider (auth-context.tsx), authService (auth.ts) and *)
(* the response interceptor of api (api.ts), in one browser document.      *)
(* Absent values are "null"; the data of a query without data is          *)
(* "undefined".  Identities are told apart by where they came from: "S"    *)
(* was persisted before the document loaded, "L" is the user of a login   *)
(* response, "P" the user of a profile response.                           *)
(***************************************************************************)
Unauthorized == 401
\* The statuses of failed requests: 401 and one that is not 401.
FailureStatuses == {Unauthorized, 500}
LoginRoute == "/auth/login"
Dashboard == "/dashboard"
Routes == {LoginRoute, Dashboard}
\* How a request ended: a 2xx response of some kind, or a failure status.
Success(kind) == [kind |-> kind, status |-> 200]
Failure(status) == [kind |-> "failed", status |-> status]
Responses == {Success("ok")} \cup {Failure(status) : status \in FailureStatuses}

\* window.location.pathname.includes('/auth/login')
OnLoginRoute == route = LoginRoute
\* const isInitialPageLoad = !document.referrer ||
\*   document.referrer.includes(window.location.origin)
isInitialPageLoad == referrer = "" \/ referrer = "same-origin"
isAuthenticated == user # "null"

\* The 401 branch of the response interceptor tears the session down.
TearsDown_OnInitialLoad(status) == status = Unauthorized /\ ~OnLoginRoute
TearsDown(status) == status = Unauthorized /\ ~OnLoginRoute /\ ~isInitialPageLoad
\* localStorage.removeItem('token'); localStorage.removeItem('user')
Removed == [token |-> "null", user |-> "null"]

NoCurrentUser ==
  [data |-> "undefined", fetchStatus |-> "idle", closure |-> "null", withToken |-> FALSE]
\* The queryFn starts: it reads the token, and it carries the storedUser of
\* the render that built it.
StartProfileFetch(q, storage, stored) ==
  [q EXCEPT !.fetchStatus = "fetching", !.closure = stored,
            !.withToken = storage.token # "null"]
\* refetch(): a first load in flight is shared, any other fetch in flight is
\* cancelled and replaced.
Refetch(q, storage, stored) ==
  IF q.fetchStatus = "fetching" /\ q.data = "undefined" THEN q
  ELSE StartProfileFetch(q, storage, stored)
isLoadingUser(q) == q.fetchStatus = "fetching" /\ q.data = "undefined"

\* The document loads at a path: AuthProvider mounts with the persisted user,
\* and the currentUser query runs when a token is persisted.
LoadDocument(storage, path, ref) ==
  /\ user' = storage.user
  /\ storedUser' = storage.user
  /\ authError' = "null"
  /\ currentUserQuery' =
       IF storage.token # "null"
       THEN StartProfileFetch(NoCurrentUser, storage, storage.user)
       ELSE NoCurrentUser
  /\ route' = path
  /\ referrer' = ref
  /\ loginCall' = "idle"
  /\ logoutCall' = "idle"

\* window.location.href = '/auth/login' after the removal of both keys.
Teardown ==
  /\ localStorage' = Removed
  /\ LoadDocument(Removed, LoginRoute, "same-origin")
  /\ effects' = <<"removeItem", "removeItem", "location.href">>

\* AuthProvider renders again when what it shows changed; every render reads
\* localStorage.getItem('user') into storedUser.
Shown == <<user, authError, currentUserQuery.data, isLoadingUser(currentUserQuery), route>>
Render ==
  storedUser' = IF Shown' # Shown THEN localStorage'.user ELSE storedUser

\* useEffect on [data], run by the render after data changed.
EffectUser_DemotesAlways(before, data, stored) ==
  IF data \notin {"null", "undefined"} THEN data
  ELSE IF data = "null" THEN "null"
  ELSE before
EffectUser(before, data, stored) ==
  IF data \notin {"null", "undefined"} THEN data
  ELSE IF data = "null" /\ stored = "null" THEN "null"
  ELSE before

\* The catch of the queryFn: the stored user of its closure when there is
\* one, else null (with setError).
CaughtProfile(closure) == closure

\* login(email, password) from the login form.
Login ==
  /\ OnLoginRoute
  /\ loginCall = "idle"
  /\ loginCall' = "sent"
  /\ authError' = "null"
  /\ effects' = <<"setError">>
  /\ UNCHANGED <<localStorage, user, currentUserQuery, route, referrer, logoutCall,
                 plainRequest>>
  /\ Render
  /\ loginFrom' = localStorage
  /\ UNCHANGED <<uiVars, apiVars, utilVars>>

\* The user of a login response, by the shapes login() and authService.login
\* understand.
LoginShapes == {"data.user", "user", "id", "none"}
\* authService.login after a response: the token and the user are stored
\* when the response carries them.
StoredByLogin(storage, hasToken, shape) ==
  [token |-> IF hasToken THEN "t" ELSE storage.token,
   user |-> IF shape # "none" THEN "L" ELSE storage.user]

\* let userData of login(): the user of the payload, null when it has none.
PayloadUser_IgnoresDirect(shape) == IF shape \in {"data.user", "user"} THEN "L" ELSE "null"
PayloadUser(shape) == IF shape # "none" THEN "L" ELSE "null"

\* The login request failed: the interceptor, then the catch of login().
LoginFailed(status) ==
  /\ loginCall = "sent"
  /\ IF TearsDown(status)
     THEN Teardown
     ELSE /\ authError' = "error"
          /\ loginCall' = "idle"
          /\ effects' = <<"setError", "throw">>
          /\ UNCHANGED <<localStorage, user, currentUserQuery, route, referrer, logoutCall>>
          /\ Render
  /\ UNCHANGED plainRequest
  /\ UNCHANGED <<uiVars, apiVars, utilVars, loginFrom>>

\* The login request succeeded: authService.login stores what came, login()
\* sets the session from the payload or falls back to the profile.
LoginSucceeded(hasToken, shape) ==
  /\ loginCall = "sent"
  /\ localStorage' = StoredByLogin(localStorage, hasToken, shape)
  /\ IF PayloadUser(shape) # "null"
     THEN /\ user' = PayloadUser(shape)
          /\ currentUserQuery' =
               StartProfileFetch([currentUserQuery EXCEPT !.data = PayloadUser(shape)],
                                 localStorage', storedUser)
          /\ route' = Dashboard
          /\ loginCall' = "idle"
          /\ effects' = <<"setUser", "setQueryData", "refetch", "navigate">>
     ELSE /\ currentUserQuery' = Refetch(currentUserQuery, localStorage', storedUser)
          /\ loginCall' = "refetching"
          /\ effects' = <<"refetch">>
          /\ UNCHANGED <<user, route>>
  /\ UNCHANGED <<authError, referrer, logoutCall, plainRequest>>
  /\ Render
  /\ UNCHANGED <<uiVars, apiVars, utilVars, loginFrom>>

\* refreshUserData()
RefreshUserData ==
  /\ currentUserQuery.fetchStatus = "idle"
  /\ currentUserQuery' = StartProfileFetch(currentUserQuery, localStorage, storedUser)
  /\ UNCHANGED <<localStorage, user, authError, route, referrer, loginCall, logoutCall,
                 plainRequest, effects>>
  /\ Render
  /\ UNCHANGED <<uiVars, apiVars, utilVars, loginFrom>>

\* What the queryFn resolves to, by how the profile request ended: "ok" (a
\* user), "empty" (no response data), "invalid" (data without any user
\* field) or a failure status.
ProfileOutcomes ==
  {Success(kind) : kind \in {"ok", "empty", "invalid"}}
    \cup {Failure(status) : status \in FailureStatuses}
ProfileResult(q, outcome) ==
  IF ~q.withToken THEN "null"
  ELSE IF outcome.kind = "ok" THEN "P"
  ELSE IF outcome.kind = "empty" THEN "null"
  ELSE CaughtProfile(q.closure)

\* The queryFn of the currentUser query settles; the effect on [data] runs,
\* and a login() that awaited the refetch goes on.
ProfileSettled(outcome) ==
  /\ currentUserQuery.fetchStatus = "fetching"
  /\ IF currentUserQuery.withToken /\ TearsDown(outcome.status)
     THEN Teardown
     ELSE LET data == ProfileResult(currentUserQuery, outcome)
              threw == currentUserQuery.withToken /\ outcome.kind \notin {"ok", "empty"}
          IN  /\ localStorage' =
                   IF currentUserQuery.withToken /\ outcome.kind = "ok"
                   THEN [localStorage EXCEPT !.user = "P"]
                   ELSE localStorage
              /\ currentUserQuery' =
                   [currentUserQuery EXCEPT !.data = data, !.fetchStatus = "idle"]
              /\ user' = IF data # currentUserQuery.data
                         THEN EffectUser(user, data, localStorage'.user)
                         ELSE user
              /\ IF loginCall = "refetching"
                 THEN /\ loginCall' = "idle"
                      /\ IF data # "null"
                         THEN /\ route' = Dashboard
                              /\ effects' = <<"navigate">>
                              /\ authError' = "null"
                         ELSE /\ authError' = "error"
                              /\ effects' = <<"setError", "throw">>
                              /\ UNCHANGED route
                 ELSE /\ authError' =
                           IF data # "null" /\ data # currentUserQuery.data THEN "null"
                           ELSE IF threw /\ data = "null" THEN "error"
                           ELSE authError
                      /\ UNCHANGED <<route, loginCall, effects>>
              /\ UNCHANGED <<referrer, logoutCall>>
              /\ Render
  /\ UNCHANGED plainRequest
  /\ UNCHANGED <<uiVars, apiVars, utilVars, loginFrom>>

\* logout()
Logout ==
  /\ logoutCall = "idle"
  /\ logoutCall' = "sent"
  /\ UNCHANGED <<localStorage, user, authError, storedUser, currentUserQuery, route,
                 referrer, loginCall, plainRequest, effects>>
  /\ UNCHANGED <<uiVars, apiVars, utilVars, loginFrom>>

\* What logout() does after authService.logout returned or threw.
LogoutCleanup_KeepsUserOnFailure(outcome) ==
  /\ localStorage' = Removed
  /\ user' = IF outcome.kind = "ok" THEN "null" ELSE user
  /\ currentUserQuery' = NoCurrentUser
  /\ route' = LoginRoute
  /\ effects' = <<"removeItem", "removeItem", "setUser", "clear", "navigate",
                  IF outcome.kind = "ok" THEN "toast.success" ELSE "toast.error">>

LogoutCleanup(outcome) ==
  /\ localStorage' = Removed
  /\ user' = "null"
  /\ currentUserQuery' = NoCurrentUser
  /\ route' = LoginRoute
  /\ effects' = <<"removeItem", "removeItem", "setUser", "clear", "navigate",
                  IF outcome.kind = "ok" THEN "toast.success" ELSE "toast.error">>

\* The logout request ended: the interceptor on a
\* failure, the cleanup of authService.logout, then the rest of logout().  A
\* login() that awaited its refetch finds the query cancelled.
LogoutSettled(outcome) ==
  /\ logoutCall = "sent"
  /\ IF TearsDown(outcome.status)
     THEN Teardown
     ELSE /\ LogoutCleanup(outcome)
          /\ logoutCall' = "idle"
          /\ loginCall' = IF loginCall = "refetching" THEN "idle" ELSE loginCall
          /\ authError' = IF loginCall = "refetching" THEN "error" ELSE authError
          /\ UNCHANGED referrer
          /\ Render
  /\ UNCHANGED plainRequest
  /\ UNCHANGED <<uiVars, apiVars, utilVars, loginFrom>>

\* A page sends a request through api.
NoRequest == [state |-> "idle"]
\* A page sends a request through api, while the first profile fetch of the
\* document is still running or after it.
PlainRequestSent ==
  /\ plainRequest.state # "sent"
  /\ plainRequest' = [state |-> "sent", afterLoad |-> ~isLoadingUser(currentUserQuery)]
  /\ UNCHANGED <<localStorage, user, authError, storedUser, currentUserQuery, route,
                 referrer, loginCall, logoutCall, effects>>
  /\ UNCHANGED <<uiVars, apiVars, utilVars, loginFrom>>

\* Its response passes the response interceptor.
PlainResponse(outcome) ==
  /\ plainRequest.state = "sent"
  /\ IF outcome.kind = "ok"
     THEN /\ plainRequest' = [state |-> "resolved"]
          /\ UNCHANGED <<localStorage, user, authError, storedUser, currentUserQuery,
                         route, referrer, loginCall, logoutCall, effects>>
     ELSE /\ plainRequest' = [state |-> "rejected", status |-> outcome.status]
          /\ IF TearsDown(outcome.status)
             THEN Teardown
             ELSE UNCHANGED <<localStorage, user, authError, storedUser, currentUserQuery,
                              route, referrer, loginCall, logoutCall, effects>>
  /\ UNCHANGED <<uiVars, apiVars, utilVars, loginFrom>>

\* The user moves to another route of the application.
Navigate(path) ==
  /\ path # route
  /\ route' = path
  /\ UNCHANGED <<localStorage, user, authError, currentUserQuery, referrer, loginCall,
                 logoutCall, plainRequest, effects>>
  /\ Render
  /\ UNCHANGED <<uiVars, apiVars, utilVars, loginFrom>>

\* What ProtectedRoute renders around a protected page: a spinner, the
\* redirection to the login route, or the page.
ProtectedRoute ==
  LET hasToken == localStorage.token # "null" IN
  IF isLoadingUser(currentUserQuery) /\ hasToken THEN "spinner"
  ELSE IF ~isAuthenticated /\ ~hasToken THEN "redirect"
  ELSE "children"

\* <Navigate to="/auth/login" replace /> rendered by ProtectedRoute.
ProtectedRedirect ==
  /\ ~OnLoginRoute
  /\ ProtectedRoute = "redirect"
  /\ route' = LoginRoute
  /\ UNCHANGED <<localStorage, user, authError, currentUserQuery, referrer, loginCall,
                 logoutCall, plainRequest, effects>>
  /\ Render
  /\ UNCHANGED <<uiVars, apiVars, utilVars, loginFrom>>

\* The user reloads the page.
Reload ==
  /\ LoadDocument(localStorage, route, referrer)
  /\ effects' = <<>>
  /\ plainRequest' = NoRequest
  /\ UNCHANGED localStorage
  /\ UNCHANGED <<uiVars, apiVars, utilVars, loginFrom>>

AuthNext ==
  \/ Login
  \/ \E status \in FailureStatuses : LoginFailed(status)
  \/ \E hasToken \in BOOLEAN, shape \in LoginShapes : LoginSucceeded(hasToken, shape)
  \/ RefreshUserData
  \/ \E outcome \in ProfileOutcomes : ProfileSettled(outcome)
  \/ Logout
  \/ \E outcome \in Responses : LogoutSettled(outcome)
  \/ PlainRequestSent
  \/ \E outcome \in Responses : PlainResponse(outcome)
  \/ \E path \in Routes : Navigate(path)
  \/ ProtectedRedirect
  \/ Reload

\* No session is followed.
InitNoSession ==
  /\ localStorage = Removed
  /\ user = "null"
  /\ authError = "null"
  /\ storedUser = "null"
  /\ currentUserQuery = NoCurrentUser
  /\ route = LoginRoute
  /\ referrer = ""
  /\ loginCall = "idle"
  /\ logoutCall = "idle"
  /\ plainRequest = NoRequest
  /\ effects = <<>>
  /\ loginFrom = Removed

\* The document loads with whatever an earlier session persisted.
InitSession ==
  /\ localStorage \in [token : {"null", "t"}, user : {"null", "S"}]
  /\ route \in Routes
  /\ referrer \in {"", "same-origin", "external"}
  /\ user = localStorage.user
  /\ storedUser = localStorage.user
  /\ authError = "null"
  /\ currentUserQuery =
       IF localStorage.token # "null"
       THEN StartProfileFetch(NoCurrentUser, localStorage, localStorage.user)
       ELSE NoCurrentUser
  /\ loginCall = "idle"
  /\ logoutCall = "idle"
  /\ plainRequest = NoRequest
  /\ effects = <<>>
  /\ loginFrom = Removed

(***************************************************************************)
(* The utilities of the client: the base address of api (getBaseUrl,       *)
(* api.setBaseUrl), the connectivity probe (testApiConnection) and the     *)
(* semester calculator.  One of them is exercised in a run.  A URL is the  *)
(* tuple of its protocol, host and port; <<>> is an absent one.            *)
(***************************************************************************)
NoUrl == <<>>
\* import.meta.env.VITE_API_URL when the build defines it.
EnvUrl == <<"https:", "api.example.edu", "443">>
Hostnames == {"localhost", "127.0.0.1", "portal.example.edu"}
Protocols == {"http:", "https:"}
\* Addresses an operator may set as override, or probe.
OverrideUrls == {<<"http:", "localhost", "8000">>, <<"https:", "backup.example.edu", "8000">>}

\* getBaseUrl(): the environment variable, then the persisted override,
\* then the hostname.
getBaseUrl_OverrideFirst(environment, stored, where) ==
  IF stored # NoUrl THEN stored
  ELSE IF environment # NoUrl THEN environment
  ELSE IF where.hostname = "localhost" \/ where.hostname = "127.0.0.1"
       THEN <<"http:", "localhost", "8000">>
       ELSE <<where.protocol, where.hostname, "8000">>

getBaseUrl(environment, stored, where) ==
  IF environment # NoUrl THEN environment
  ELSE IF stored # NoUrl THEN stored
  ELSE IF where.hostname = "localhost" \/ where.hostname = "127.0.0.1"
       THEN <<"http:", "localhost", "8000">>
       ELSE <<where.protocol, where.hostname, "8000">>

\* api.setBaseUrl(newBaseUrl)
setBaseUrl(newBaseUrl) ==
  /\ utility = "baseUrl"
  /\ baseURL' = newBaseUrl
  /\ storedBaseUrl' = newBaseUrl
  /\ overridden' = TRUE
  /\ UNCHANGED <<utility, env, location>>
  /\ UNCHANGED probeVars
  /\ UNCHANGED calcVars
  /\ UNCHANGED <<uiVars, apiVars, authVars>>

\* The page is loaded again: axios.create({ baseURL: getBaseUrl() }).
LoadClient ==
  /\ utility = "baseUrl"
  /\ baseURL' = getBaseUrl(env, storedBaseUrl, location)
  /\ overridden' = FALSE
  /\ UNCHANGED <<utility, env, location, storedBaseUrl>>
  /\ UNCHANGED probeVars
  /\ UNCHANGED calcVars
  /\ UNCHANGED <<uiVars, apiVars, authVars>>

\* let bestResponseTime = Infinity: above every duration a probe can measure.
Infinity == MaxDuration + 1
\* How the health request of a candidate ends: a response after a measured
\* duration, or a failure.
ProbeOutcomes ==
  {[success |-> TRUE, duration |-> d] : d \in 0..MaxDuration} \cup {[success |-> FALSE]}

\* if (duration < bestResponseTime)
Faster_OrEqual(duration, best) == duration <= best
Faster(duration, best) == duration < best

\* One turn of the loop of testApiConnection: probe the next candidate and
\* record how it went; a failure is caught and the loop goes on.
ProbeStep(outcome) ==
  /\ utility = "probe"
  /\ probePc = "loop"
  /\ Len(probes) < Len(urlsToTest)
  /\ LET url == urlsToTest[Len(probes) + 1] IN
       /\ probes' = Append(probes, outcome)
       /\ results' = [u \in DOMAIN results \cup {url} |->
                        IF u = url THEN outcome ELSE results[u]]
       /\ IF outcome.success /\ Faster(outcome.duration, bestResponseTime)
          THEN bestResponseTime' = outcome.duration /\ bestUrl' = url
          ELSE UNCHANGED <<bestResponseTime, bestUrl>>
  /\ UNCHANGED <<probePc, urlsToTest>>
  /\ UNCHANGED <<utility, env, location, storedBaseUrl, baseURL, overridden>>
  /\ UNCHANGED calcVars
  /\ UNCHANGED <<uiVars, apiVars, authVars>>

\* return { results, bestUrl }
ProbeReturn ==
  /\ utility = "probe"
  /\ probePc = "loop"
  /\ Len(probes) = Len(urlsToTest)
  /\ probePc' = "returned"
  /\ UNCHANGED <<urlsToTest, probes, results, bestUrl, bestResponseTime>>
  /\ UNCHANGED <<utility, env, location, storedBaseUrl, baseURL, overridden>>
  /\ UNCHANGED calcVars
  /\ UNCHANGED <<uiVars, apiVars, authVars>>

\* The base address of a client that was just created.
InitBaseUrl ==
  /\ env \in {NoUrl, EnvUrl}
  /\ location \in [hostname : Hostnames, protocol : Protocols]
  /\ storedBaseUrl \in {NoUrl} \cup OverrideUrls
  /\ baseURL = getBaseUrl(env, storedBaseUrl, location)
  /\ overridden = FALSE

InitNoBaseUrl ==
  /\ env = NoUrl
  /\ location = [hostname |-> "localhost", protocol |-> "http:"]
  /\ storedBaseUrl = NoUrl
  /\ baseURL = NoUrl
  /\ overridden = FALSE

RECURSIVE SeqsUpTo(_, _)
\* The sequences over a set S of length n at most.
SeqsUpTo(S, n) ==
  IF n = 0 THEN {<<>>}
  ELSE LET shorter == SeqsUpTo(S, n - 1) IN
       shorter \cup {Append(s, x) : s \in shorter, x \in S}

\* testApiConnection(urlsToTest) is entered.
InitProbe ==
  /\ urlsToTest \in SeqsUpTo(OverrideUrls, MaxUrls)
  /\ probes = <<>>
  /\ results = <<>>
  /\ bestUrl = NoUrl
  /\ bestResponseTime = Infinity
  /\ probePc = "loop"

InitNoProbe ==
  /\ urlsToTest = <<>>
  /\ probes = <<>>
  /\ results = <<>>
  /\ bestUrl = NoUrl
  /\ bestResponseTime = Infinity
  /\ probePc = "returned"

(***************************************************************************)
(* semester-calculator.ts.  A value of the persisted user JSON is          *)
(* undefined, a number, or a string written as its characters; a number    *)
(* the calculator returns is an integer or NaN.                            *)
(***************************************************************************)
Undefined == [type |-> "undefined"]
Num(n) == [type |-> "number", n |-> n]
Str(chars) == [type |-> "string", chars |-> chars]
Number(n) == [nan |-> FALSE, n |-> n]
NaN == [nan |-> TRUE]

DigitChars == <<"0", "1", "2", "3", "4", "5", "6", "7", "8", "9">>
IsDigit(c) == \E d \in DOMAIN DigitChars : DigitChars[d] = c
DigitOf(c) == (CHOOSE d \in DOMAIN DigitChars : DigitChars[d] = c) - 1

RECURSIVE ToChars(_)
\* String(n) of a natural number.
ToChars(n) ==
  IF n < 10 THEN <<DigitChars[n + 1]>>
  ELSE Append(ToChars(n \div 10), DigitChars[(n % 10) + 1])

RECURSIVE ParseDigits(_, _, _)
\* parseInt reads the digits a string starts with and stops at the first
\* other character.
ParseDigits(chars, i, acc) ==
  IF i > Len(chars) \/ ~IsDigit(chars[i]) THEN acc
  ELSE ParseDigits(chars, i + 1, acc * 10 + DigitOf(chars[i]))

\* parseInt(v) of a JSON value the calculator reads.
parseInt(v) ==
  IF v.type = "number" THEN Number(v.n)
  ELSE IF v.type = "string" /\ v.chars # <<>> /\ IsDigit(v.chars[1])
       THEN Number(ParseDigits(v.chars, 1, 0))
       ELSE NaN

\* if (v): undefined, 0 and "" are not taken.
Truthy(v) ==
  IF v.type = "number" THEN v.n # 0
  ELSE IF v.type = "string" THEN v.chars # <<>>
  ELSE FALSE

Min(a, b) == IF a < b THEN a ELSE b
Max(a, b) == IF a > b THEN a ELSE b

\* The batch branch of calculateCurrentSemester: two semesters a year, the
\* second from July on, kept within 1..8.
SemesterOfBatch_Unclamped(userBatch, date) ==
  LET yearDifference == date.year - userBatch
      semester == yearDifference * 2 + (IF date.month >= 6 THEN 1 ELSE 0) + 1
  IN semester
SemesterOfBatch(userBatch, date) ==
  LET yearDifference == date.year - userBatch
      semester == yearDifference * 2 + (IF date.month >= 6 THEN 1 ELSE 0) + 1
  IN Min(Max(semester, 1), 8)

\* calculateCurrentSemester(), reading the persisted user and the date.
calculateCurrentSemester(stored, date) ==
  LET parsed == stored.json = "object"
      userBatch == IF parsed /\ Truthy(stored.batch)
                   THEN parseInt(stored.batch) ELSE Number(0)
  IN IF parsed /\ Truthy(stored.current_semester)
     THEN parseInt(stored.current_semester)
     ELSE IF ~userBatch.nan /\ userBatch.n > 0
          THEN Number(SemesterOfBatch(userBatch.n, date))
          ELSE Number(IF date.month >= 6 THEN 2 ELSE 1)

\* Math.ceil(semester / 2)
calculateAcademicYear_Floor(s) == s \div 2
calculateAcademicYear(s) == (s + 1) \div 2

\* estimateBatchYear(semester)
estimateBatchYear(s, date) == date.year - calculateAcademicYear(s) + 1

\* The semesters of the four-year programme the calculator is called with.
Semesters == 1..8
\* The years of the dates and of the batches of a run.
Years == 2020..(2020 + MaxSpan)
NoAnswer == [fn |-> "none"]

CalculateCurrentSemester ==
  /\ utility = "calculator"
  /\ calculated' = [fn |-> "calculateCurrentSemester",
                value |-> calculateCurrentSemester(userData, now)]
  /\ UNCHANGED <<now, userData>>
  /\ UNCHANGED <<utility, env, location, storedBaseUrl, baseURL, overridden>>
  /\ UNCHANGED probeVars
  /\ UNCHANGED <<uiVars, apiVars, authVars>>

CalculateAcademicYear(s) ==
  /\ utility = "calculator"
  /\ calculated' = [fn |-> "calculateAcademicYear", semester |-> s,
                value |-> calculateAcademicYear(s)]
  /\ UNCHANGED <<now, userData>>
  /\ UNCHANGED <<utility, env, location, storedBaseUrl, baseURL, overridden>>
  /\ UNCHANGED probeVars
  /\ UNCHANGED <<uiVars, apiVars, authVars>>

EstimateBatchYear(s) ==
  /\ utility = "calculator"
  /\ calculated' = [fn |-> "estimateBatchYear", semester |-> s,
                value |-> estimateBatchYear(s, now)]
  /\ UNCHANGED <<now, userData>>
  /\ UNCHANGED <<utility, env, location, storedBaseUrl, baseURL, overridden>>
  /\ UNCHANGED probeVars
  /\ UNCHANGED <<uiVars, apiVars, authVars>>

\* What localStorage holds under 'user', as far as the calculator reads it.
StoredUsers ==
  {[json |-> "null"], [json |-> "invalid"]} \cup
  [json : {"object"},
   batch : {Undefined, Num(0), Str(<<"n", "a">>)}
           \cup {Num(b) : b \in Years} \cup {Str(ToChars(b)) : b \in Years},
   current_semester : {Undefined, Num(0), Num(5), Str(<<"5">>), Str(<<"V">>)}]

InitCalculator ==
  /\ now \in [year : Years, month : 0..11]
  /\ userData \in StoredUsers
  /\ calculated = NoAnswer

InitNoCalculator ==
  /\ now = [year |-> 2020, month |-> 0]
  /\ userData = [json |-> "null"]
  /\ calculated = NoAnswer

UtilNext ==
  \/ \E newBaseUrl \in OverrideUrls : setBaseUrl(newBaseUrl)
  \/ LoadClient
  \/ \E outcome \in ProbeOutcomes : ProbeStep(outcome)
  \/ ProbeReturn
  \/ CalculateCurrentSemester
  \/ \E s \in Semesters : CalculateAcademicYear(s)
  \/ \E s \in Semesters : EstimateBatchYear(s)

\* No utility is exercised.
InitNoUtil ==
  /\ utility = "none"
  /\ InitNoBaseUrl
  /\ InitNoProbe
  /\ InitNoCalculator

\* One utility is exercised, the others are at rest.
InitUtil ==
  \/ utility = "baseUrl" /\ InitBaseUrl /\ InitNoProbe /\ InitNoCalculator
  \/ utility = "probe" /\ InitNoBaseUrl /\ InitProbe /\ InitNoCalculator
  \/ utility = "calculator" /\ InitNoBaseUrl /\ InitNoProbe /\ InitCalculator

\* Both components start with nothing selected; the server holds no selection
\* of the student yet.
InitCommon ==
  /\ selectedCourse = Empty
  /\ selectedTeacher = Empty
  /\ selectedSlot = Empty
  /\ created = 0
  /\ serverSelections = <<>>

\* The page after its first render: the courses and my-selections queries are
\* fetching, the teachers and slots queries are disabled.
InitPage ==
  /\ coursesQuery = StartFetch(IdleQuery)
  /\ teachersQuery = [c \in CourseIds |-> IdleQuery]
  /\ slotsQuery = [k \in SlotKeys |-> IdleQuery]
  /\ selectionsQuery =
       [hasData |-> FALSE, data |-> <<>>, fetchStatus |-> "sent", snap |-> <<>>, ok |-> FALSE]
  /\ createMutation = IdleMutation
  /\ deleteMutation = IdleMutation

\* The Redux store as created (initialState), before the mount effect.
InitStore ==
  /\ availableCourses = <<>>
  /\ availableTeachers = <<>>
  /\ availableSlots = <<>>
  /\ myCourseSelections = <<>>
  /\ loading = FALSE
  /\ error = "null"
  /\ thunks = {}
  /\ resume = FALSE

\* The page's queries when the page is not the component on screen.
InitNoPage ==
  /\ coursesQuery = IdleQuery
  /\ teachersQuery = [c \in CourseIds |-> IdleQuery]
  /\ slotsQuery = [k \in SlotKeys |-> IdleQuery]
  /\ selectionsQuery =
       [hasData |-> FALSE, data |-> <<>>, fetchStatus |-> "idle", snap |-> <<>>, ok |-> FALSE]
  /\ createMutation = IdleMutation
  /\ deleteMutation = IdleMutation

\* The store after the mount effect of CourseSelection dispatched
\* fetchAvailableCourses() and fetchMyCourseSelections().
InitStoreMounted ==
  /\ availableCourses = <<>>
  /\ availableTeachers = <<>>
  /\ availableSlots = <<>>
  /\ myCourseSelections = <<>>
  /\ loading = TRUE
  /\ error = "null"
  /\ thunks = AddThunk(AddThunk({}, Thunk("fetchAvailableCourses", <<>>, "sent")),
                       Thunk("fetchMyCourseSelections", <<>>, "sent"))
  /\ resume = FALSE

\* One of the two components is on screen.
Init ==
  /\ InitCommon
  /\ InitNoCall
  /\ InitNoSession
  /\ InitNoUtil
  /\ \/ mounted = "page" /\ InitPage /\ InitStore
     \/ mounted = "redux" /\ InitNoPage /\ InitStoreMounted

Next == PageNext \/ ReduxNext

Spec == Init /\ [][Next]_vars

\* A call of studentCourseApi on its own, no component on screen.
InitApi ==
  /\ mounted = "none"
  /\ InitCommon
  /\ InitNoPage
  /\ InitStore
  /\ InitNoSession
  /\ InitNoUtil
  /\ InitSlotsCall \/ InitCoursesCall \/ InitFallbackCall

SpecApi == InitApi /\ [][ApiNext]_vars

\* The session on its own.
InitAuth ==
  /\ mounted = "none"
  /\ InitCommon
  /\ InitNoPage
  /\ InitStore
  /\ InitNoCall
  /\ InitSession
  /\ InitNoUtil

SpecAuth == InitAuth /\ [][AuthNext]_vars

\* A utility on its own.
InitUtilities ==
  /\ mounted = "none"
  /\ InitCommon
  /\ InitNoPage
  /\ InitStore
  /\ InitNoCall
  /\ InitNoSession
  /\ InitUtil

SpecUtil == InitUtilities /\ [][UtilNext]_vars

\* A student who already holds selections opens one of the two components.
InitReturning(held) ==
  /\ selectedCourse = Empty
  /\ selectedTeacher = Empty
  /\ selectedSlot = Empty
  /\ created = 0
  /\ serverSelections = held
  /\ InitNoCall
  /\ InitNoSession
  /\ InitNoUtil

\* The Redux component, opened by a student who holds two selections.
InitReturningStore ==
  /\ InitReturning(PriorSelections)
  /\ mounted = "redux"
  /\ InitNoPage
  /\ InitStoreMounted

SpecStore == InitReturningStore /\ [][ReduxNext]_vars

\* The routed page, opened by a student who holds one selection.
InitReturningPage ==
  /\ InitReturning(<<Head(PriorSelections)>>)
  /\ mounted = "page"
  /\ InitPage
  /\ InitStore

SpecPage == InitReturningPage /\ [][PageNext]_vars

(***************************************************************************)
(* Properties of the course-selection workflow.                            *)
(***************************************************************************)
SelectsCourse == \E c \in CourseIds : handleSelectCourse(c) \/ handleCourseChange(c)
SelectsTeacher == \E t \in TeacherIds : handleSelectTeacher(t) \/ handleTeacherChange(t)

\* C1: in either component, the step that selects a course leaves the
\* selected teacher and the selected slot empty, and the step that selects a
\* teacher leaves the selected slot empty, whatever was selected before and
\* whatever requests are in flight.
C1_DownstreamCleared ==
  [][ /\ SelectsCourse => selectedTeacher' = Empty /\ selectedSlot' = Empty
      /\ SelectsTeacher => selectedSlot' = Empty ]_vars

\* A course was selected after a complete selection had been submitted: the
\* create request of the old selection is still in flight, the teachers of
\* the new course are being fetched, teacher and slot are empty.
C1_Witness ==
  /\ PageShown
  /\ createMutation.status = "sent"
  /\ created = 0
  /\ selectedCourse # Empty
  /\ createMutation.variables[1] # selectedCourse
  /\ teachersQuery[selectedCourse].fetchStatus = "fetching"
  /\ selectedTeacher = Empty
  /\ selectedSlot = Empty

C3_StaleResponseNotBound ==
  [][ /\ \A x \in InFlight("fetchAvailableTeachers") :
           thunks' = RemoveThunk(thunks, x) /\ x.arg # <<selectedCourse>>
             => availableTeachers' = availableTeachers
      /\ \A x \in InFlight("fetchAvailableSlots") :
           thunks' = RemoveThunk(thunks, x) /\ x.arg # <<selectedCourse, selectedTeacher>>
             => availableSlots' = availableSlots ]_vars

AnyEmpty == selectedCourse = Empty \/ selectedTeacher = Empty \/ selectedSlot = Empty
CreateIssued ==
  \/ createMutation.status = "idle" /\ createMutation'.status = "sent"
  \/ \E x \in thunks' \ thunks : x.type = "createCourseSelection" /\ x.phase = "sent"

\* C4: a handleSubmit that runs while course, teacher or slot is empty issues
\* no create request and changes neither the selections nor the confirmed
\* list; every create request is issued from a state with all three set.
C4_SubmitNeedsAllThree ==
  [][ /\ (handleSubmit \/ handleSubmitRedux) /\ AnyEmpty =>
           UNCHANGED <<createMutation, thunks, selVars, selectionsQuery,
                       myCourseSelections, serverVars>>
      /\ CreateIssued => ~AnyEmpty ]_vars

\* The page with course and teacher chosen, no slot yet and no creation
\* pending: handleSubmit runs here and takes its early return.
C4_Witness ==
  /\ PageShown
  /\ ~isCreating
  /\ selectedCourse # Empty
  /\ selectedTeacher # Empty
  /\ selectedSlot = Empty
  /\ ENABLED handleSubmit

\* C5: on the page, handling a failed create-selection call leaves the three
\* selections as they are and neither changes nor refetches the confirmed list.
C5_FailedCreateKeepsForm ==
  [][ createMutation.status = "failed" /\ createMutation'.status = "idle" =>
        UNCHANGED <<selVars, selectionsQuery>> ]_vars

\* The create call has failed while the form still holds what was submitted.
C5_Witness ==
  /\ PageShown
  /\ createMutation.status = "failed"
  /\ ~AnyEmpty
  /\ createMutation.variables = selVars
  /\ selectionsQuery.hasData

\* C6: in the Redux component, once createCourseSelection was rejected (the
\* error is recorded and handleSubmit continues), the three selections keep
\* their values and myCourseSelections gains no item.
C6_RejectedCreateKeepsForm ==
  [][ mounted = "redux" /\ resume /\ error = "Failed to create course selection" =>
        /\ UNCHANGED selVars
        /\ myCourseSelections' = myCourseSelections ]_vars

\* C7: on the page, once a creation succeeded and its success was handled,
\* whenever no fetch of the confirmed list and no removal is in progress the
\* confirmed list is the server's list (which holds the created selection
\* unless it was removed again).
C7_ConfirmedListIsServerList ==
  ( /\ PageShown
    /\ created > 0
    /\ createMutation.status # "succeeded"
    /\ deleteMutation.status = "idle"
    /\ selectionsQuery.fetchStatus = "idle" )
  => mySelections = serverSelections

\* C8: a teacher fetch starts (first attempt or retry, page or Redux) only
\* for the course that is selected as it starts, a slot fetch only for the
\* selected (course, teacher) pair, and none starts while its upstream
\* selection is empty.
C8_FetchesCarryCurrentSelection ==
  [][ /\ \A c \in CourseIds :
           teachersQuery[c].fetchStatus # "fetching"
             /\ teachersQuery'[c].fetchStatus = "fetching" => selectedCourse' = c
      /\ \A k \in SlotKeys :
           slotsQuery[k].fetchStatus # "fetching"
             /\ slotsQuery'[k].fetchStatus = "fetching"
             => selectedCourse' = k[1] /\ selectedTeacher' = k[2]
      /\ \A x \in thunks' \ thunks :
           /\ x.type = "fetchAvailableTeachers" =>
                selectedCourse' # Empty /\ x.arg = <<selectedCourse'>>
           /\ x.type = "fetchAvailableSlots" =>
                /\ selectedCourse' # Empty /\ selectedTeacher' # Empty
                /\ x.arg = <<selectedCourse', selectedTeacher'>> ]_vars

\* The second retry of the teachers request of the selected course is in
\* flight while the teachers of the other course are already cached.
C8_Witness ==
  /\ PageShown
  /\ selectedCourse = 1
  /\ teachersQuery[1].fetchStatus = "fetching"
  /\ teachersQuery[1].failureCount = RetryTeachers
  /\ teachersQuery[2].hasData

(***************************************************************************)
(* Properties of the fallback chains of studentCourseApi.                  *)
(***************************************************************************)
IsPrefix(s, t) == Len(s) <= Len(t) /\ \A i \in 1..Len(s) : s[i] = t[i]
AllFailed(endpoints) == \A i \in 1..Len(endpoints) : network[endpoints[i]] = "error"
\* The first endpoint of a list that does not fail, when there is one.
FirstAnswering(endpoints) ==
  endpoints[CHOOSE i \in 1..Len(endpoints) :
              /\ network[endpoints[i]] # "error"
              /\ \A j \in 1..(i - 1) : network[endpoints[j]] = "error"]

\* C9: getAvailableSlots requests its four endpoints in the listed order and
\* stops at the first that succeeds: what it returns is that endpoint's data
\* (for /api/slot/ as the slots of the wrapped answer), no later endpoint
\* is requested, and when all four fail it throws the error of the fourth.
C9_SlotsFallbackInOrder ==
  apiCall = "getAvailableSlots" =>
    /\ IsPrefix(requests, SlotEndpoints)
    /\ \A i \in 1..(Len(requests) - 1) : network[requests[i]] = "error"
    /\ result.kind = "returned" =>
         /\ ~AllFailed(SlotEndpoints)
         /\ requests[Len(requests)] = FirstAnswering(SlotEndpoints)
         /\ IF FirstAnswering(SlotEndpoints) = "/api/slot/"
            THEN result.value.data.slots = <<"/api/slot/">>
            ELSE result.value.data = <<FirstAnswering(SlotEndpoints)>>
    /\ result.kind = "thrown" =>
         /\ AllFailed(SlotEndpoints)
         /\ requests = SlotEndpoints
         /\ result.error = RequestError("/api/slot/")
    /\ pc = "done" /\ ~AllFailed(SlotEndpoints) => result.kind = "returned"

\* The third endpoint answered after the first two failed; the fourth would
\* have answered too and was not requested.
C9_Witness ==
  /\ apiCall = "getAvailableSlots"
  /\ result.kind = "returned"
  /\ requests = <<"/api/student-courses/courses/available_slots/",
                  "/api/student-courses/courses/filtered_slots/",
                  "/api/timetable/timetables/">>
  /\ network["/api/slot/"] = "ok"

ProfilesAnswer == network[AuthProfile] = "ok" /\ network[StudentProfile] = "ok"

C12_LogoutAlwaysSignsOut ==
  [][ (\E outcome \in Responses : LogoutSettled(outcome)) =>
        /\ logoutCall' = "idle"
        /\ localStorage' = Removed
        /\ user' = "null"
        /\ ~isAuthenticated'
        /\ currentUserQuery' = NoCurrentUser
        /\ route' = LoginRoute ]_vars

\* logout() has just ended after its request failed.
C12_Witness ==
  /\ logoutCall = "idle"
  /\ Len(effects) > 0
  /\ effects[Len(effects)] = "toast.error"
  /\ user = "null"
  /\ localStorage = Removed

\* C13: when the profile request of the currentUser query fails (or answers
\* with unusable data) while a user is persisted and in memory, and the
\* failure is not a 401 that tears the session down, the in-memory user stays
\* non-null.
C13_FailedRefreshKeepsIdentity ==
  [][ \A outcome \in ProfileOutcomes :
        ( /\ ProfileSettled(outcome)
          /\ currentUserQuery.withToken
          /\ outcome.kind \in {"failed", "invalid"}
          /\ ~(outcome.status = Unauthorized /\ ~OnLoginRoute /\ ~isInitialPageLoad)
          /\ localStorage.user # "null"
          /\ user # "null" )
        => user' # "null" /\ isAuthenticated' ]_vars

\* After a login that set the session from its payload, the background
\* refetch (built by a render that saw no stored user) failed: the error is
\* recorded, the query data is null, and the user is still the one of the
\* login.
C13_Witness ==
  /\ effects = <<"setUser", "setQueryData", "refetch", "navigate">>
  /\ currentUserQuery.fetchStatus = "idle"
  /\ currentUserQuery.withToken
  /\ currentUserQuery.data = "null"
  /\ authError = "error"
  /\ localStorage = [token |-> "t", user |-> "L"]
  /\ user = "L"

\* C14: in every state in which no token is persisted, isAuthenticated is
\* false.
C14_NoTokenIsAnonymous ==
  localStorage.token = "null" => ~isAuthenticated

\* C15: the step of login() that handles a response carrying a user sets the
\* in-memory user and the currentUser cache entry from the payload, then
\* issues the refetch and navigates to /dashboard, in that order and in one
\* step: the refetch is still in flight when the step ends.
C15_LoginSetsSessionFromPayload ==
  [][ \A hasToken \in BOOLEAN, shape \in LoginShapes \ {"none"} :
        LoginSucceeded(hasToken, shape) =>
          /\ user' = "L"
          /\ isAuthenticated'
          /\ currentUserQuery'.data = "L"
          /\ currentUserQuery'.fetchStatus = "fetching"
          /\ route' = Dashboard
          /\ effects' = <<"setUser", "setQueryData", "refetch", "navigate">> ]_vars

\* The session was just set from a login payload that is the user object
\* itself; the page is the dashboard and the refetch has not settled.
C15_Witness ==
  /\ effects = <<"setUser", "setQueryData", "refetch", "navigate">>
  /\ user = "L"
  /\ currentUserQuery.data = "L"
  /\ currentUserQuery.fetchStatus = "fetching"
  /\ route = Dashboard
  /\ loginCall = "idle"

(***************************************************************************)
(* Properties of the utilities.                                            *)
(***************************************************************************)
\* The address the hostname gives: the local default port on a loopback
\* host, else the same host on port 8000.
HostnameDefault ==
  IF location.hostname \in {"localhost", "127.0.0.1"}
  THEN <<"http:", "localhost", "8000">>
  ELSE <<location.protocol, location.hostname, "8000">>

\* A client that was created by this page load and not overridden since.
FreshClient == utility = "baseUrl" /\ ~overridden

C17_OverrideSurvivesReload ==
  (utility = "baseUrl" /\ storedBaseUrl # NoUrl) => baseURL = storedBaseUrl

\* C17, the part the code keeps: in the session that called setBaseUrl the
\* client talks to the override, which is persisted.
C17_OverrideInSession ==
  [][ \A newBaseUrl \in OverrideUrls :
        setBaseUrl(newBaseUrl) => baseURL' = newBaseUrl /\ storedBaseUrl' = newBaseUrl ]_vars

\* The probe of position i answered, and no probe answered sooner, nor as
\* soon at an earlier position.
FastestProbe(i) ==
  /\ probes[i].success
  /\ \A j \in DOMAIN probes :
       probes[j].success =>
         \/ probes[j].duration > probes[i].duration
         \/ probes[j].duration = probes[i].duration /\ j >= i

\* What results holds for a url: the outcome of its probe (of the last one
\* when the url is listed more than once).
Recorded(url) ==
  LET last == CHOOSE i \in DOMAIN urlsToTest :
                /\ urlsToTest[i] = url
                /\ \A j \in DOMAIN urlsToTest : urlsToTest[j] = url => j <= i
  IN probes[last]

\* C18: when testApiConnection returns, every candidate was probed whatever
\* the earlier probes did, results records for each candidate whether its
\* probe succeeded, bestUrl is null exactly when no probe succeeded, and
\* otherwise it is the candidate whose probe succeeded with the smallest
\* duration, the earliest of them on a tie.
C18_BestIsFastestSuccess ==
  (utility = "probe" /\ probePc = "returned") =>
    /\ Len(probes) = Len(urlsToTest)
    /\ DOMAIN results = Range(urlsToTest)
    /\ \A url \in DOMAIN results : results[url].success = Recorded(url).success
    /\ (bestUrl = NoUrl) <=> (\A i \in DOMAIN probes : ~probes[i].success)
    /\ bestUrl # NoUrl =>
         \E i \in DOMAIN probes : urlsToTest[i] = bestUrl /\ FastestProbe(i)

\* Three candidates were probed: the first failed, the other two answered
\* after the same duration; the call returned the second as the best.
C18_Witness ==
  /\ utility = "probe"
  /\ probePc = "returned"
  /\ urlsToTest = << <<"http:", "localhost", "8000">>,
                     <<"https:", "backup.example.edu", "8000">>,
                     <<"http:", "localhost", "8000">> >>
  /\ probes = <<[success |-> FALSE], [success |-> TRUE, duration |-> 1],
                [success |-> TRUE, duration |-> 1]>>
  /\ bestUrl = <<"https:", "backup.example.edu", "8000">>
  /\ results[<<"http:", "localhost", "8000">>].success

\* ceil(s / 2): the least integer whose double reaches s.
HalfRoundedUp(s) == CHOOSE y \in 0..s : 2 * y >= s /\ 2 * (y - 1) < s

\* C19: for a semester s of 1..8, calculateAcademicYear(s) is s / 2 rounded
\* up and estimateBatchYear(s) is the current year minus that, plus one; and
\* the semester the batch formula gives for the estimated batch year, in any
\* month of the current year, lies in the academic year of s.
C19_YearAndBatchOfSemester ==
  /\ calculated.fn = "calculateAcademicYear" =>
       calculated.value = HalfRoundedUp(calculated.semester)
  /\ calculated.fn = "estimateBatchYear" =>
       /\ calculated.value = now.year - HalfRoundedUp(calculated.semester) + 1
       /\ \A month \in 0..11 :
            HalfRoundedUp(SemesterOfBatch(calculated.value,
                                          [year |-> now.year, month |-> month]))
              = HalfRoundedUp(calculated.semester)

\* The batch year of a student in the eighth semester was estimated: three
\* years before the current one.
C19_Witness ==
  /\ calculated.fn = "estimateBatchYear"
  /\ calculated.semester = 8
  /\ calculated.value = now.year - 3

\* The persisted user holds no semester and a batch year b, as a number or
\* as its decimal string.
BatchOnly(b) ==
  /\ userData.json = "object"
  /\ userData.current_semester = Undefined
  /\ userData.batch \in {Num(b), Str(ToChars(b))}

\* C20: with no semester in the persisted user and a batch year b > 0,
\* calculateCurrentSemester() is 2 * (currentYear - b) + 1, plus one from
\* July on, brought into 1..8; for batch 2022 in August 2024 it is 6, in
\* academic year 3.
C20_SemesterFromBatch ==
  \A b \in Years :
    (calculated.fn = "calculateCurrentSemester" /\ b > 0 /\ BatchOnly(b)) =>
      LET raw == 2 * (now.year - b) + 1 + (IF now.month >= 6 THEN 1 ELSE 0)
          expected == IF raw < 1 THEN 1 ELSE IF raw > 8 THEN 8 ELSE raw
      IN /\ calculated.value = Number(expected)
         /\ (b = 2022 /\ now = [year |-> 2024, month |-> 7]) =>
              /\ calculated.value = Number(6)
              /\ calculateAcademicYear(calculated.value.n) = 3

\* Batch 2022, persisted as a string, on a day of August 2024: semester 6.
C20_Witness ==
  /\ calculated = [fn |-> "calculateCurrentSemester", value |-> Number(6)]
  /\ now = [year |-> 2024, month |-> 7]
  /\ BatchOnly(2022)
  /\ userData.batch = Str(<<"2", "0", "2", "2">>)

\* C21: whatever the persisted user record holds, the number
\* calculateCurrentSemester() returns is a semester of 1..8.
C21_SemesterInRange ==
  calculated.fn = "calculateCurrentSemester" =>
    ~calculated.value.nan /\ calculated.value.n \in Semesters

(***************************************************************************)
(* Properties of a returning student's session and of the remaining parts. *)
(***************************************************************************)
\* The thunk of type type that this step settles: it leaves thunks after the
\* server has handled its request.
Settles(x, type) ==
  /\ x \in thunks
  /\ x.type = type
  /\ x.phase # "sent"
  /\ thunks' = thunks \ {x}

\* The entries of a list other than id, in their order.
Without(list, id) ==
  LET Other(e) == e # id IN SelectSeq(list, Other)

\* C22: in the Redux component, removing a listed selection dispatches one
\* deleteCourseSelection thunk with the id of that selection; when the thunk
\* is fulfilled myCourseSelections becomes the same list without the entries
\* of that id, and when it is rejected myCourseSelections is unchanged and
\* error holds the message.
C22_DeleteRemovesThatId ==
  [][ /\ \A id \in SelectionIds :
           handleDelete(id) =>
             \E x \in thunks' :
               /\ x \notin thunks
               /\ thunks' = thunks \cup {x}
               /\ x.type = "deleteCourseSelection"
               /\ x.arg = <<id>>
               /\ x.phase = "sent"
      /\ \A x \in thunks :
           Settles(x, "deleteCourseSelection") =>
             IF x.phase = "succeeded"
             THEN myCourseSelections' = Without(myCourseSelections, x.arg[1])
             ELSE /\ UNCHANGED myCourseSelections
                  /\ error' = "Failed to delete course selection" ]_vars

\* A student who held two selections removed the first: the second is the
\* one left in the list, and nothing is in flight.
C22_Witness ==
  /\ mounted = "redux"
  /\ thunks = {}
  /\ ~loading
  /\ error = "null"
  /\ created = 0
  /\ serverSelections = Tail(PriorSelections)
  /\ myCourseSelections = Tail(PriorSelections)

\* C23: a call of getMyCourseSelections, getDepartments or getAcademicInfo
\* ends by returning, never by throwing; when its request failed, the
\* response it returns carries an empty list, and for getAcademicInfo an
\* empty object.
C23_FallbackNeverThrows ==
  (apiCall \in FallbackCalls /\ pc = "done") =>
    /\ result.kind = "returned"
    /\ Failed(FallbackEndpoint(apiCall)) =>
         IF apiCall = "getAcademicInfo"
         THEN result.value = [data |-> [keys |-> {}]]
         ELSE result.value = [data |-> <<>>]

\* The request of getAcademicInfo failed and the call returned.
C23_Witness ==
  /\ apiCall = "getAcademicInfo"
  /\ pc = "done"
  /\ requests = <<"/api/students/academic-info/">>
  /\ network["/api/students/academic-info/"] = "error"
  /\ result.kind = "returned"

\* login() rejects in this step: the catch of login() has set the error and
\* thrown.
LoginRejects ==
  /\ loginCall # "idle"
  /\ loginCall' = "idle"
  /\ effects' = <<"setError", "throw">>

\* C24: when a login() that was called with nothing persisted rejects,
\* nothing is persisted afterwards (no token and no user of that attempt)
\* and the session is anonymous.
C24_RejectedLoginLeavesNothing ==
  [][ (LoginRejects /\ loginFrom = Removed) =>
        localStorage' = Removed /\ ~isAuthenticated' ]_vars

\* C25: when a request that was sent after the first profile fetch of the
\* document had finished is answered with 401, while a token is persisted
\* and the route is not the login route, the token and the user are removed
\* and the route becomes /auth/login, whatever the referrer of the document.
C25_LateUnauthorizedTearsDown ==
  [][ ( /\ PlainResponse(Failure(Unauthorized))
        /\ plainRequest.afterLoad
        /\ localStorage.token # "null"
        /\ ~OnLoginRoute )
      => localStorage' = Removed /\ route' = LoginRoute ]_vars

\* C26: on a protected route, ProtectedRoute renders the page only while
\* the session has a user; when the profile fetch is over and there is no
\* user it renders the redirection to /auth/login, with or without a
\* persisted token.
C26_ProtectedContentNeedsUser ==
  ~OnLoginRoute =>
    /\ ProtectedRoute = "children" => isAuthenticated
    /\ (~isLoadingUser(currentUserQuery) /\ ~isAuthenticated) => ProtectedRoute = "redirect"

\* The createCourseSelection thunks that were dispatched and have not
\* settled.
PendingCreates == {x \in thunks : x.type = "createCourseSelection"}

\* C27: at most one create request is pending at any time; the submit
\* control issues a createCourseSelection call only when none is pending, in
\* the page and in the Redux component.
C27_OneCreateInFlight ==
  [][ /\ handleSubmit => (createMutation' = createMutation \/ ~isCreating)
      /\ handleSubmitRedux => (thunks' = thunks \/ PendingCreates = {}) ]_vars

\* C28: in the Redux component, loading is true whenever a thunk of the
\* slice has been dispatched and has not settled, so the form is not shown
\* while a request is in flight.
C28_LoadingWhilePending ==
  (mounted = "redux" /\ thunks # {}) => (loading /\ ~FormShown)

\* C29: in the page, when a fetch of the confirmed selections fails after
\* a list was loaded, the list on screen keeps every selection it showed
\* that is still confirmed on the server: a failure does not empty it.
C29_FailedRefetchKeepsList ==
  [][ ( /\ SelectionsResponse
        /\ ~selectionsQuery.ok
        /\ selectionsQuery.hasData )
      => (Range(mySelections) \cap Range(serverSelections)) \subseteq Range(mySelections') ]_vars

\* C30: when testApiConnection returns a bestUrl, the result it recorded
\* for that url is a success, also when the candidate list holds a url more
\* than once.
C30_BestUrlRecordedAsSuccess ==
  (utility = "probe" /\ probePc = "returned" /\ bestUrl # NoUrl) =>
    results[bestUrl].success
====
